---- MODULE Spec2Model ----
(***************************************************************************)
(* The trace-aware structured-record pipeline of                           *)
(* github.com/dentech-floss/logging (pkg/logging/logger.go): the Logger    *)
(* facade, the spanContextLogHandler decorator, the key replacer, the      *)
(* context-scoped logger fields and the stack trimmer; further on, the     *)
(* masking functions (MaskSSN, MaskPhone, MaskEmail, MaskString) and the   *)
(* logging http.RoundTripper (LoggingTransport).                           *)
(*                                                                         *)
(* Strings that the code splits or searches are kept in a split form:      *)
(* a text is the sequence of its "\n"-separated lines (strings.Split is    *)
(* a bijection between texts and non-empty line sequences), and a line is  *)
(* the sequence of its segments, so that strings.Contains is a search      *)
(* through the segments.                                                   *)
(***************************************************************************)
EXTENDS Integers, Sequences, FiniteSets, TLC

VARIABLES
    loggers,    \* heap of *Logger: each the spanContextLogHandler it wraps
    lineage,    \* history: for each logger its parent and what With added
    lwcs,       \* heap of *LoggerWithContext: [ctx, l]
    ctxs,       \* heap of context.Context values; ctxs[1] is Background
    attached,   \* history: the fields a context had when it was created
    arrays,     \* heap of backing arrays of []slog.Attr slices
    held,       \* the slices (array ids) the calling code holds
    call,       \* the last logging call: its entry point and arguments
    nHandle,    \* decorator Handle invocations made by the last call
    nBase,      \* base sink Handle invocations made by the last call
    ambient,    \* the attrs Handle read from the context in the last call
    handed,     \* the record the decorator handed to the base sink
    out,        \* the record the base sink wrote
    pc,         \* position inside PanicContext / FatalContext
    status,     \* "running", "panicking" or "exited"
    fault,      \* the value the panic carries
    exitCode,   \* the status os.Exit was called with
    stackIn,    \* trimStack's argument
    stackOut,   \* trimStack's result
    maskFn,     \* the masking function that was called, "" before the call
    maskIn,     \* its input string
    maskLit,    \* MaskString's toMask argument
    maskOut,    \* its result: whether it panicked, and the string returned
    transport,  \* the *LoggingTransport, once NewLoggingTransport built it
    rtCalls,    \* invocations of the wrapped RoundTripper in the last RoundTrip
    trip,       \* the last RoundTrip: request, wrapped result, returned result
    sinkRet,    \* what the base sink's Handle returned to the decorator
    handleRet,  \* what the decorator's Handle returned to its caller
    replIn,     \* replacer's arguments: the open groups and the attribute
    replOut,    \* its result: whether it panicked, and the attribute returned
    dumpIn,     \* the loggerFields given to DumpRequest / DumpResponse
    dumpOut     \* the call made and its result: whether it panicked, the slice

vars == <<loggers, lineage, lwcs, ctxs, attached, arrays, held, call, nHandle,
          nBase, ambient, handed, out, pc, status, fault, exitCode, stackIn, stackOut,
          maskFn, maskIn, maskLit, maskOut, transport, rtCalls, trip,
          sinkRet, handleRet, replIn, replOut, dumpIn, dumpOut>>

heapVars == <<loggers, lineage, lwcs, ctxs, attached, arrays, held>>
callVars == <<call, nHandle, nBase, ambient, handed, out>>
procVars == <<pc, status, fault, exitCode>>
trimVars == <<stackIn, stackOut>>
maskVars == <<maskFn, maskIn, maskLit, maskOut>>
httpVars == <<transport, rtCalls, trip>>
retVars == <<sinkRet, handleRet>>
unitVars == <<replIn, replOut, dumpIn, dumpOut>>

-----------------------------------------------------------------------------
(* Bounds of the model *)

MaxLoggers == 3
MaxContexts == 2
MaxArrays == 1
MaxStackLines == 5
MaxGroups == 2
MaxFields == 3

-----------------------------------------------------------------------------
(* Levels *)

DebugLevel == -4
InfoLevel == 0
WarnLevel == 4
ErrorLevel == 8
DPanicLevel == 9
PanicLevel == 16
FatalLevel == 32

NamedLevels ==
    {DebugLevel, InfoLevel, WarnLevel, ErrorLevel, DPanicLevel, PanicLevel, FatalLevel}

\* Logger embeds *slog.Logger, whose Log takes any slog.Level (an int):
\* two levels without a name stand for those.
OtherLevels == {2, 12}

Levels == NamedLevels \cup OtherLevels

-----------------------------------------------------------------------------
(* Attributes and values *)

StringValue(s) == [kind |-> "String", v |-> s]
BoolValue(b) == [kind |-> "Bool", v |-> b]
LevelValue(n) == [kind |-> "Level", v |-> n]
TimeValue == [kind |-> "Time", v |-> "now"]
SourceValue == [kind |-> "Source", v |-> "caller"]

String(key, value) == [key |-> key, value |-> StringValue(value)]
Bool(key, value) == [key |-> key, value |-> BoolValue(value)]

Msgs == {"done", "boom"}
GroupNames == {"req"}
ProjectIDs == {"", "test-project"}
ServiceName == "test-service"

Attrs == {String("key", "value"), String("key", "other"), String("user", "value")}

RECURSIVE SeqsUpTo(_, _)
SeqsUpTo(S, n) ==
    IF n = 0 THEN {<<>>}
    ELSE LET shorter == SeqsUpTo(S, n - 1)
         IN shorter \cup {Append(s, x) : s \in {t \in shorter : Len(t) = n - 1}, x \in S}

\* The attribute lists the calling code passes
AttrSeqs ==
    {<<>>, <<String("key", "other")>>, <<String("user", "value"), String("key", "value")>>}

-----------------------------------------------------------------------------
(* Span contexts: trace.TraceID is [16]byte, trace.SpanID is [8]byte; both  *)
(* print as lower-case hex.                                                 *)

HexDigits == <<"0", "1", "2", "3", "4", "5", "6", "7",
               "8", "9", "a", "b", "c", "d", "e", "f">>

HexByte(b) == HexDigits[(b \div 16) + 1] \o HexDigits[(b % 16) + 1]

RECURSIVE Hex(_)
Hex(bytes) == IF bytes = <<>> THEN "" ELSE HexByte(Head(bytes)) \o Hex(Tail(bytes))

TestTraceID == <<1, 2, 3, 4, 5, 6, 7, 8, 9, 10, 11, 12, 13, 14, 15, 16>>
HighTraceID == <<171, 205, 239, 0, 0, 0, 0, 0, 0, 0, 0, 0, 0, 0, 0, 255>>
ZeroTraceID == <<0, 0, 0, 0, 0, 0, 0, 0, 0, 0, 0, 0, 0, 0, 0, 0>>
TestSpanID == <<1, 2, 3, 4, 5, 6, 7, 8>>
ZeroSpanID == <<0, 0, 0, 0, 0, 0, 0, 0>>

SpanContext(t, s, sampled) == [TraceID |-> t, SpanID |-> s, Sampled |-> sampled]

\* The zero SpanContext: what SpanContextFromContext yields when none is bound.
NoSpanContext == SpanContext(ZeroTraceID, ZeroSpanID, FALSE)

SpanContexts ==
    {SpanContext(TestTraceID, TestSpanID, FALSE),
     SpanContext(HighTraceID, TestSpanID, TRUE),
     SpanContext(ZeroTraceID, TestSpanID, TRUE),
     SpanContext(TestTraceID, ZeroSpanID, TRUE)}

IsValid(s) ==
    /\ \E i \in 1..Len(s.TraceID) : s.TraceID[i] # 0
    /\ \E i \in 1..Len(s.SpanID) : s.SpanID[i] # 0

TraceKey == "logging.googleapis.com/trace"
SpanIdKey == "logging.googleapis.com/spanId"
TraceSampledKey == "logging.googleapis.com/trace_sampled"
StacktraceKey == "stacktrace"

-----------------------------------------------------------------------------
(* replacer *)

LevelKey == "level"
TimeKey == "time"
MessageKey == "msg"
SourceKey == "source"

replacer(groups, a) ==
    CASE a.key = LevelKey ->
           LET level == a.value.v
           IN [key |-> "severity",
               value |-> CASE level = DebugLevel -> StringValue("DEBUG")
                           [] level = InfoLevel -> StringValue("INFO")
                           [] level = WarnLevel -> StringValue("WARNING")
                           [] level \in {ErrorLevel, DPanicLevel} -> StringValue("ERROR")
                           [] level = PanicLevel -> StringValue("CRITICAL")
                           [] level = FatalLevel -> StringValue("EMERGENCY")
                           [] OTHER -> a.value]
      [] a.key = TimeKey -> [a EXCEPT !.key = "timestamp"]
      [] a.key = MessageKey -> [a EXCEPT !.key = "message"]
      [] a.key = SourceKey -> [a EXCEPT !.key = "logging.googleapis.com/sourceLocation"]
      [] OTHER -> a

-----------------------------------------------------------------------------
(* trimStack *)

stackSkipPrefixes ==
    <<"runtime/debug.", "log/slog.", "github.com/dentech-floss/logging/pkg/logging.">>

\* strings.Contains(line, prefix) on a line kept as its segments
Contains(line, prefix) == \E k \in 1..Len(line) : line[k] = prefix

isNoisy(packageLine) ==
    \E p \in 1..Len(stackSkipPrefixes) : Contains(packageLine, stackSkipPrefixes[p])

RECURSIVE startLineFrom_last(_, _)
startLineFrom_last(lines, i) ==
    IF ~(i < Len(lines) - 1) THEN Len(lines) - 1
    ELSE IF ~isNoisy(lines[i + 1]) THEN i
    ELSE startLineFrom_last(lines, i + 2)

\* The for loop of trimStack from index i on (Go indices, lines[i] is lines[i + 1]
\* here): the index of the first frame that is not noisy, or 1.
RECURSIVE startLineFrom(_, _)
startLineFrom(lines, i) ==
    IF ~(i < Len(lines) - 1) THEN 1
    ELSE IF ~isNoisy(lines[i + 1]) THEN i
    ELSE startLineFrom(lines, i + 2)

\* strings.Join(elems, "\n") as a text: no element gives the empty text,
\* which is the one empty line.
JoinLines(elems) == IF elems = <<>> THEN << <<>> >> ELSE elems

trimStack(lines) ==
    IF Len(lines) <= 1 THEN lines
    ELSE LET startLine == startLineFrom(lines, 1)
         IN <<lines[1]>> \o JoinLines(SubSeq(lines, startLine + 1, Len(lines)))

-----------------------------------------------------------------------------
(* The base sink: the slog JSON handler NewLogger builds, with ReplaceAttr  *)
(* set to replacer and AddSource on.  A handler is its level floor, the     *)
(* entries preformatted by WithAttrs and its open groups; what it writes is *)
(* the sequence of entries [path, key, value] of the JSON object.           *)

Group(key, members) == [key |-> key, value |-> [kind |-> "Group", v |-> members]]

RECURSIVE Entries(_, _)
Entries(groups, as) ==
    IF as = <<>> THEN <<>>
    ELSE LET a == Head(as)
             first == IF a.value.kind = "Group"
                      THEN Entries(Append(groups, a.key), a.value.v)
                      ELSE LET r == replacer(groups, a)
                           IN <<[path |-> groups, key |-> r.key, value |-> r.value]>>
         IN first \o Entries(groups, Tail(as))

NewJSONHandler(level) == [level |-> level, attrs |-> <<>>, groups |-> <<>>]

JSONEnabled(h, level) == level >= h.level

JSONWithAttrs(h, as) == [h EXCEPT !.attrs = @ \o Entries(h.groups, as)]

JSONWithGroup(h, name) == [h EXCEPT !.groups = Append(@, name)]

JSONHandle(h, record) ==
    Entries(<<>>, <<[key |-> TimeKey, value |-> TimeValue],
                    [key |-> LevelKey, value |-> LevelValue(record.Level)],
                    [key |-> SourceKey, value |-> SourceValue],
                    [key |-> MessageKey, value |-> StringValue(record.Message)]>>)
    \o h.attrs
    \o Entries(h.groups, record.attrs)

-----------------------------------------------------------------------------
(* Contexts *)

Background == 1

NewContext(kind, parent, fields, span) ==
    [kind |-> kind, parent |-> parent, fields |-> fields, span |-> span]

\* ctx.Value(loggerFieldsContextKey{}): the slice stored by the nearest
\* ContextWithLoggerFields (its backing array), 0 for nil
RECURSIVE FieldsValue(_)
FieldsValue(c) ==
    IF ctxs[c].kind = "fields" THEN ctxs[c].fields
    ELSE IF ctxs[c].parent = 0 THEN 0
    ELSE FieldsValue(ctxs[c].parent)

\* trace.SpanContextFromContext(ctx)
RECURSIVE SpanContextFromContext(_)
SpanContextFromContext(c) ==
    IF ctxs[c].kind = "span" THEN ctxs[c].span
    ELSE IF ctxs[c].parent = 0 THEN NoSpanContext
    ELSE SpanContextFromContext(ctxs[c].parent)

LoggerFieldsFromContext(c) ==
    LET v == FieldsValue(c)
    IN IF v # 0 THEN <<>> \o arrays[v] ELSE <<>>

-----------------------------------------------------------------------------
(* spanContextLogHandler *)

handlerWithSpanContext(projectID, handler) ==
    [ProjectID |-> projectID, Handler |-> handler]

Enabled_always(t, level) == TRUE

Enabled(t, level) == JSONEnabled(t.Handler, level)

AddAttrs(record, as) == [record EXCEPT !.attrs = @ \o as]

Sprintf_trace_bare(projectID, traceID) == Hex(traceID)

\* fmt.Sprintf("projects/%s/traces/%s", t.ProjectID, s.TraceID())
Sprintf_trace(projectID, traceID) ==
    "projects/" \o projectID \o "/traces/" \o Hex(traceID)

\* Handle, lines 282-285: the logger fields of the context
addLoggerFields(record, attrs) ==
    IF Len(attrs) # 0 THEN AddAttrs(record, attrs) ELSE record

addStacktrace_atError(record, stack) ==
    IF record.Level >= ErrorLevel
    THEN AddAttrs(record, <<[key |-> StacktraceKey, value |-> StringValue(trimStack(stack))]>>)
    ELSE record

\* Handle, lines 287-294: the stack trace of warnings and above
addStacktrace(record, stack) ==
    IF record.Level >= WarnLevel
    THEN AddAttrs(record, <<[key |-> StacktraceKey, value |-> StringValue(trimStack(stack))]>>)
    ELSE record

addSpanContext_always(t, record, s) ==
    AddAttrs(record, <<String(TraceKey, Sprintf_trace(t.ProjectID, s.TraceID)),
                       String(SpanIdKey, Hex(s.SpanID)),
                       Bool(TraceSampledKey, s.Sampled)>>)

\* Handle, lines 296-308: the fields of a valid span context
addSpanContext(t, record, s) ==
    IF IsValid(s)
    THEN AddAttrs(record, <<String(TraceKey, Sprintf_trace(t.ProjectID, s.TraceID)),
                            String(SpanIdKey, Hex(s.SpanID)),
                            Bool(TraceSampledKey, s.Sampled)>>)
    ELSE record

\* Handle up to its last line: the record it hands to the base sink.
\* stack is what debug.Stack() returns.
Handle(t, c, record, stack) ==
    addSpanContext(t,
                   addStacktrace(addLoggerFields(record, LoggerFieldsFromContext(c)), stack),
                   SpanContextFromContext(c))

WithAttrs(t, as) == [ProjectID |-> t.ProjectID, Handler |-> JSONWithAttrs(t.Handler, as)]

WithGroup_noProject(t, name) == [ProjectID |-> "", Handler |-> JSONWithGroup(t.Handler, name)]

WithGroup(t, name) == [ProjectID |-> t.ProjectID, Handler |-> JSONWithGroup(t.Handler, name)]

-----------------------------------------------------------------------------------------------------------------------------------------------------
(* What debug.Stack() returns inside Handle: the frames of the logging      *)
(* machinery on top of the frames of the calling code.                      *)

HeaderLine == <<"goroutine 1 [running]:">>
FileLine == <<"\t", "/src/file.go:1 +0x1">>
EmptyLine == <<>>
DebugFrame == <<"runtime/debug.", "Stack()">>
HandleFrame ==
    <<"github.com/dentech-floss/logging/pkg/logging.", "(*spanContextLogHandler).Handle(...)">>
SlogFrame == <<"log/slog.", "(*Logger).log(...)">>
FacadeFrame == <<"github.com/dentech-floss/logging/pkg/logging.", "(*Logger).PanicContext(...)">>
MainFrame == <<"main.", "main()">>
WrapFrame == <<"main.", "wrap(", "log/slog.", "Logger)">>
\* A frame of a package whose import path ends in log/slog
ForkFrame == <<"example.com/fork/", "log/slog.", "Info(...)">>

\* The entry points that are methods of this package (the others are
\* promoted methods of the embedded *slog.Logger)
FacadeOps ==
    {"Logger.PanicContext", "Logger.Panic", "LoggerWithContext.Panic",
     "Logger.FatalContext", "Logger.Fatal", "LoggerWithContext.Fatal",
     "LoggerWithContext.Info", "LoggingTransport.RoundTrip"}

RuntimeStack(op) ==
    <<HeaderLine, DebugFrame, FileLine, HandleFrame, FileLine, SlogFrame, FileLine>>
    \o (IF op \in FacadeOps THEN <<FacadeFrame, FileLine>> ELSE <<>>)
    \o <<MainFrame, FileLine, EmptyLine>>

-----------------------------------------------------------------------------
(* Logger *)

LoggerConfigs == [ProjectID : ProjectIDs, MinLevel : NamedLevels]

\* The configuration of TestLogger
TestConfig == [ProjectID |-> "test-project", MinLevel |-> DebugLevel]

NewLogger(config) ==
    LET jsonHandler == NewJSONHandler(config.MinLevel)
        instrumentedHandler == handlerWithSpanContext(config.ProjectID, jsonHandler)
    IN WithAttrs(instrumentedHandler,
                 <<Group("serviceContext", <<String("service", ServiceName)>>)>>)

NoCall == [op |-> "none", l |-> 0, ctx |-> 0, level |-> 0, msg |-> "", args |-> <<>>]

\* The state once NewLogger(config) has returned
Constructed(config) ==
    /\ loggers = <<NewLogger(config)>>
    /\ lineage = <<[parent |-> 0, attrs |-> <<>>, group |-> ""]>>
    /\ lwcs = <<>>
    /\ ctxs = <<NewContext("Background", 0, 0, NoSpanContext)>>
    /\ attached = << <<>> >>
    /\ arrays = <<>>
    /\ held = {}
    /\ call = NoCall
    /\ nHandle = 0
    /\ nBase = 0
    /\ ambient = <<>>
    /\ handed = <<>>
    /\ out = <<>>
    /\ pc = "idle"
    /\ status = "running"
    /\ fault = ""
    /\ exitCode = 0

NoTrim == stackIn = <<EmptyLine>> /\ stackOut = <<>>

\* No masking function was called
NoMask == maskFn = "" /\ maskIn = "" /\ maskLit = "" /\ maskOut = <<>>

\* No LoggingTransport was built
NoTransport == transport = <<>> /\ rtCalls = 0 /\ trip = <<>>

\* Handle was not called on its own
NoReturn == sinkRet = <<>> /\ handleRet = <<>>

\* Neither replacer nor a dump function was called on its own
NoUnit == replIn = <<>> /\ replOut = <<>> /\ dumpIn = <<>> /\ dumpOut = <<>>

Init ==
    /\ \E config \in LoggerConfigs : Constructed(config)
    /\ NoTrim /\ NoMask /\ NoTransport /\ NoReturn /\ NoUnit

Idle == status = "running" /\ pc = "idle"

-----------------------------------------------------------------------------
(* Contexts and their logger fields *)

\* trace.ContextWithSpanContext(parent, sc)
ContextWithSpanContext ==
    /\ Idle
    /\ Len(ctxs) < MaxContexts
    /\ \E parent \in 1..Len(ctxs), sc \in SpanContexts :
          ctxs' = Append(ctxs, NewContext("span", parent, 0, sc))
    /\ attached' = Append(attached, <<>>)
    /\ UNCHANGED <<loggers, lineage, lwcs, arrays, held, callVars, procVars, trimVars, maskVars, httpVars, retVars, unitVars>>

\* The calling code builds a []slog.Attr
NewAttrs ==
    /\ Idle
    /\ Len(arrays) < MaxArrays
    /\ \E as \in AttrSeqs :
          /\ arrays' = Append(arrays, as)
          /\ held' = held \cup {Len(arrays) + 1}
    /\ UNCHANGED <<loggers, lineage, lwcs, ctxs, attached, callVars, procVars, trimVars, maskVars, httpVars, retVars, unitVars>>

\* The calling code assigns an element of a slice it holds
WriteAttr ==
    /\ Idle
    /\ \E a \in held :
          \E i \in 1..Len(arrays[a]), x \in Attrs :
             /\ arrays[a][i] # x
             /\ arrays' = [arrays EXCEPT ![a][i] = x]
    /\ UNCHANGED <<loggers, lineage, lwcs, ctxs, attached, held, callVars, procVars, trimVars, maskVars, httpVars, retVars, unitVars>>

\* ContextWithLoggerFields(parent, attrs): context.WithValue keeps the slice
\* it is given, which shares its backing array with the caller's
ContextWithLoggerFields ==
    /\ Idle
    /\ Len(ctxs) < MaxContexts
    /\ \E parent \in 1..Len(ctxs), a \in held :
          /\ ctxs' = Append(ctxs, NewContext("fields", parent, a, NoSpanContext))
          /\ attached' = Append(attached, arrays[a])
    /\ UNCHANGED <<loggers, lineage, lwcs, arrays, held, callVars, procVars, trimVars, maskVars, httpVars, retVars, unitVars>>

\* The calling code calls LoggerFieldsFromContext(c) and keeps the result,
\* a freshly allocated slice
ReadFields ==
    /\ Idle
    /\ Len(arrays) < MaxArrays + 1
    /\ \E c \in 1..Len(ctxs) :
          /\ arrays' = Append(arrays, LoggerFieldsFromContext(c))
          /\ held' = held \cup {Len(arrays) + 1}
    /\ UNCHANGED <<loggers, lineage, lwcs, ctxs, attached, callVars, procVars, trimVars, maskVars, httpVars, retVars, unitVars>>

-----------------------------------------------------------------------------
(* Logger.With, WithGroup, WithContext and LoggerWithContext.With *)

Derived(l, as, group) == [parent |-> l, attrs |-> as, group |-> group]

With_sharing ==
    /\ Idle
    /\ Len(loggers) < MaxLoggers
    /\ \E l \in 1..Len(loggers), args \in AttrSeqs :
          /\ loggers' = Append([loggers EXCEPT ![l] = WithAttrs(loggers[l], args)],
                               WithAttrs(loggers[l], args))
          /\ lineage' = Append(lineage, Derived(l, args, ""))
    /\ UNCHANGED <<lwcs, ctxs, attached, arrays, held, callVars, procVars, trimVars, maskVars, httpVars, retVars, unitVars>>

With ==
    /\ Idle
    /\ Len(loggers) < MaxLoggers
    /\ \E l \in 1..Len(loggers), args \in AttrSeqs :
          /\ loggers' = Append(loggers, WithAttrs(loggers[l], args))
          /\ lineage' = Append(lineage, Derived(l, args, ""))
    /\ UNCHANGED <<lwcs, ctxs, attached, arrays, held, callVars, procVars, trimVars, maskVars, httpVars, retVars, unitVars>>

LoggerWithGroup ==
    /\ Idle
    /\ Len(loggers) < MaxLoggers
    /\ \E l \in 1..Len(loggers), name \in GroupNames :
          /\ loggers' = Append(loggers, WithGroup(loggers[l], name))
          /\ lineage' = Append(lineage, Derived(l, <<>>, name))
    /\ UNCHANGED <<lwcs, ctxs, attached, arrays, held, callVars, procVars, trimVars, maskVars, httpVars, retVars, unitVars>>

WithContext ==
    /\ Idle
    /\ Len(loggers) < MaxLoggers
    /\ \E l \in 1..Len(loggers), c \in 1..Len(ctxs), args \in AttrSeqs :
          /\ loggers' = Append(loggers, WithAttrs(loggers[l], args))
          /\ lineage' = Append(lineage, Derived(l, args, ""))
          /\ lwcs' = Append(lwcs, [ctx |-> c, l |-> Len(loggers) + 1])
    /\ UNCHANGED <<ctxs, attached, arrays, held, callVars, procVars, trimVars, maskVars, httpVars, retVars, unitVars>>

LoggerWithContext_With ==
    /\ Idle
    /\ Len(loggers) < MaxLoggers
    /\ \E lc \in 1..Len(lwcs), args \in AttrSeqs :
          /\ loggers' = Append(loggers, WithAttrs(loggers[lwcs[lc].l], args))
          /\ lineage' = Append(lineage, Derived(lwcs[lc].l, args, ""))
          /\ lwcs' = Append(lwcs, [ctx |-> lwcs[lc].ctx, l |-> Len(loggers) + 1])
    /\ UNCHANGED <<ctxs, attached, arrays, held, callVars, procVars, trimVars, maskVars, httpVars, retVars, unitVars>>

-----------------------------------------------------------------------------
(* Logging *)

\* slog.Logger.log as reached from Logger.Log and the XxxContext methods:
\* nothing happens below the floor; otherwise the record goes through the
\* decorator's Handle to the base sink's Handle.
log(op, l, c, level, msg, args) ==
    /\ call' = [op |-> op, l |-> l, ctx |-> c, level |-> level, msg |-> msg, args |-> args]
    /\ IF ~Enabled(loggers[l], level)
       THEN /\ nHandle' = 0
            /\ nBase' = 0
            /\ ambient' = <<>>
            /\ handed' = <<>>
            /\ out' = <<>>
       ELSE LET record == [Level |-> level, Message |-> msg, attrs |-> args]
                r == Handle(loggers[l], c, record, RuntimeStack(op))
            IN /\ nHandle' = 1
               /\ nBase' = 1
               /\ ambient' = LoggerFieldsFromContext(c)
               /\ handed' = <<r>>
               /\ out' = <<JSONHandle(loggers[l].Handler, r)>>

\* Logger.Log(ctx, level, msg, args...) at any level
Log ==
    /\ Idle
    /\ \E l \in 1..Len(loggers), c \in 1..Len(ctxs), level \in Levels, args \in AttrSeqs :
          log("Logger.Log", l, c, level, "done", args)
    /\ UNCHANGED <<heapVars, procVars, trimVars, maskVars, httpVars, retVars, unitVars>>

\* Logger.InfoContext(ctx, msg, args...)
InfoContext ==
    /\ Idle
    /\ \E l \in 1..Len(loggers), c \in 1..Len(ctxs), args \in AttrSeqs :
          log("Logger.InfoContext", l, c, InfoLevel, "done", args)
    /\ UNCHANGED <<heapVars, procVars, trimVars, maskVars, httpVars, retVars, unitVars>>

\* Logger.WarnContext(ctx, msg, args...)
WarnContext ==
    /\ Idle
    /\ \E l \in 1..Len(loggers), c \in 1..Len(ctxs), args \in AttrSeqs :
          log("Logger.WarnContext", l, c, WarnLevel, "done", args)
    /\ UNCHANGED <<heapVars, procVars, trimVars, maskVars, httpVars, retVars, unitVars>>

\* LoggerWithContext.Info(msg, args...)
LoggerWithContext_Info ==
    /\ Idle
    /\ \E lc \in 1..Len(lwcs), args \in AttrSeqs :
          log("LoggerWithContext.Info", lwcs[lc].l, lwcs[lc].ctx, InfoLevel, "done", args)
    /\ UNCHANGED <<heapVars, procVars, trimVars, maskVars, httpVars, retVars, unitVars>>

-----------------------------------------------------------------------------
(* Panic and Fatal: the Log call, then the irreversible step *)

\* Logger.PanicContext, line 172
PanicContext ==
    /\ Idle
    /\ \E l \in 1..Len(loggers), c \in 1..Len(ctxs), msg \in Msgs, args \in AttrSeqs :
          log("Logger.PanicContext", l, c, PanicLevel, msg, args)
    /\ pc' = "PanicContext:panic"
    /\ UNCHANGED <<heapVars, status, fault, exitCode, trimVars, maskVars, httpVars, retVars, unitVars>>

Panic_noLog ==
    /\ Idle
    /\ \E l \in 1..Len(loggers), msg \in Msgs, args \in AttrSeqs :
          /\ call' = [op |-> "Logger.Panic", l |-> l, ctx |-> Background,
                      level |-> PanicLevel, msg |-> msg, args |-> args]
          /\ nHandle' = 0
          /\ nBase' = 0
          /\ ambient' = <<>>
          /\ handed' = <<>>
          /\ out' = <<>>
    /\ pc' = "PanicContext:panic"
    /\ UNCHANGED <<heapVars, status, fault, exitCode, trimVars, maskVars, httpVars, retVars, unitVars>>

\* Logger.Panic: PanicContext with context.Background()
Panic ==
    /\ Idle
    /\ \E l \in 1..Len(loggers), msg \in Msgs, args \in AttrSeqs :
          log("Logger.Panic", l, Background, PanicLevel, msg, args)
    /\ pc' = "PanicContext:panic"
    /\ UNCHANGED <<heapVars, status, fault, exitCode, trimVars, maskVars, httpVars, retVars, unitVars>>

\* LoggerWithContext.Panic: PanicContext of its logger with its context
LoggerWithContext_Panic ==
    /\ Idle
    /\ \E lc \in 1..Len(lwcs), msg \in Msgs, args \in AttrSeqs :
          log("LoggerWithContext.Panic", lwcs[lc].l, lwcs[lc].ctx, PanicLevel, msg, args)
    /\ pc' = "PanicContext:panic"
    /\ UNCHANGED <<heapVars, status, fault, exitCode, trimVars, maskVars, httpVars, retVars, unitVars>>

\* Logger.PanicContext, line 173: panic(msg)
PanicContext_panic ==
    /\ status = "running"
    /\ pc = "PanicContext:panic"
    /\ status' = "panicking"
    /\ fault' = call.msg
    /\ pc' = "unwound"
    /\ UNCHANGED <<heapVars, callVars, exitCode, trimVars, maskVars, httpVars, retVars, unitVars>>

\* Logger.FatalContext, line 199
FatalContext ==
    /\ Idle
    /\ \E l \in 1..Len(loggers), c \in 1..Len(ctxs), msg \in Msgs, args \in AttrSeqs :
          log("Logger.FatalContext", l, c, FatalLevel, msg, args)
    /\ pc' = "FatalContext:exit"
    /\ UNCHANGED <<heapVars, status, fault, exitCode, trimVars, maskVars, httpVars, retVars, unitVars>>

\* Logger.Fatal: FatalContext with context.Background()
Fatal ==
    /\ Idle
    /\ \E l \in 1..Len(loggers), msg \in Msgs, args \in AttrSeqs :
          log("Logger.Fatal", l, Background, FatalLevel, msg, args)
    /\ pc' = "FatalContext:exit"
    /\ UNCHANGED <<heapVars, status, fault, exitCode, trimVars, maskVars, httpVars, retVars, unitVars>>

\* LoggerWithContext.Fatal: FatalContext of its logger with its context
LoggerWithContext_Fatal ==
    /\ Idle
    /\ \E lc \in 1..Len(lwcs), msg \in Msgs, args \in AttrSeqs :
          log("LoggerWithContext.Fatal", lwcs[lc].l, lwcs[lc].ctx, FatalLevel, msg, args)
    /\ pc' = "FatalContext:exit"
    /\ UNCHANGED <<heapVars, status, fault, exitCode, trimVars, maskVars, httpVars, retVars, unitVars>>

\* Logger.FatalContext, line 200: os.Exit(1)
FatalContext_exit ==
    /\ status = "running"
    /\ pc = "FatalContext:exit"
    /\ status' = "exited"
    /\ exitCode' = 1
    /\ pc' = "exited"
    /\ UNCHANGED <<heapVars, callVars, fault, trimVars, maskVars, httpVars, retVars, unitVars>>

-----------------------------------------------------------------------------
(* trimStack on its own *)

LineKinds == {HeaderLine, SlogFrame, MainFrame, WrapFrame, ForkFrame, FileLine, EmptyLine}

\* Texts of up to MaxStackLines lines (a text has at least one line)
Stacks == SeqsUpTo(LineKinds, MaxStackLines) \ {<<>>}

TrimStackCall ==
    /\ stackOut = <<>>
    /\ stackOut' = <<trimStack(stackIn)>>
    /\ UNCHANGED <<heapVars, callVars, procVars, stackIn, maskVars, httpVars, retVars, unitVars>>

-----------------------------------------------------------------------------
(* Specifications *)

\* Records through the logger NewLogger built, with and without span context
Next ==
    \/ ContextWithSpanContext
    \/ Log

Spec == Init /\ [][Next]_vars

\* Logger fields on contexts, and the slices they are passed and read in
InitFields == Constructed(TestConfig) /\ NoTrim /\ NoMask /\ NoTransport /\ NoReturn /\ NoUnit

NextFields ==
    \/ NewAttrs
    \/ WriteAttr
    \/ ContextWithLoggerFields
    \/ ReadFields
    \/ InfoContext
    \/ WarnContext

SpecFields == InitFields /\ [][NextFields]_vars

\* Derived loggers
NextWith ==
    \/ With
    \/ LoggerWithGroup
    \/ WithContext
    \/ LoggerWithContext_With
    \/ InfoContext
    \/ LoggerWithContext_Info

SpecWith == InitFields /\ [][NextWith]_vars

\* Panic and Fatal
NextPanic ==
    \/ WithContext
    \/ PanicContext
    \/ Panic
    \/ LoggerWithContext_Panic
    \/ PanicContext_panic
    \/ FatalContext
    \/ Fatal
    \/ LoggerWithContext_Fatal
    \/ FatalContext_exit

SpecPanic == Init /\ [][NextPanic]_vars

\* trimStack
InitTrim ==
    /\ Constructed(TestConfig)
    /\ stackIn \in Stacks
    /\ stackOut = <<>>
    /\ NoMask /\ NoTransport /\ NoReturn /\ NoUnit

SpecTrim == InitTrim /\ [][TrimStackCall]_vars

-----------------------------------------------------------------------------
(* Properties.  They speak of the last logging call: its arguments (call),  *)
(* the record handed to the base sink (handed) and the record written (out). *)

Written == out # <<>>

CallProject == loggers[call.l].ProjectID
CallFloor == loggers[call.l].Handler.level
CallSpan == SpanContextFromContext(call.ctx)

\* The positions of the top-level entries of a written record with a key
TopLevel(rec, key) == {i \in 1..Len(rec) : rec[i].path = <<>> /\ rec[i].key = key}

\* The positions of the attributes of a record with a key
WithKey(as, key) == {i \in 1..Len(as) : as[i].key = key}

\* The text of the trace identifiers in use, written out
TraceIDText(t) ==
    CASE t = TestTraceID -> "0102030405060708090a0b0c0d0e0f10"
      [] t = HighTraceID -> "abcdef000000000000000000000000ff"
      [] OTHER -> "00000000000000000000000000000000"

\* C1: a record logged through a logger built with a non-empty project P, with
\* a context that carries a valid span context of trace T, is written with
\* logging.googleapis.com/trace = "projects/P/traces/<lower-case hex of T>".
C1_TraceQualified ==
    (Written /\ CallProject # "" /\ IsValid(CallSpan)) =>
        \E i \in TopLevel(out[1], TraceKey) :
            out[1][i].value =
                StringValue("projects/" \o CallProject \o "/traces/"
                            \o TraceIDText(CallSpan.TraceID))

C1_Witness ==
    /\ Written
    /\ CallProject = "test-project"
    /\ CallSpan = SpanContext(TestTraceID, TestSpanID, FALSE)
    /\ \E i \in TopLevel(out[1], TraceKey) :
          out[1][i].value =
              StringValue("projects/test-project/traces/0102030405060708090a0b0c0d0e0f10")

\* C2: the trace value is qualified with the project only when one was
\* configured; with an empty project identifier and a valid span context it
\* is the bare trace ID.
C2_BareTraceWithoutProject ==
    (Written /\ IsValid(CallSpan)) =>
        \E i \in TopLevel(out[1], TraceKey) :
            out[1][i].value =
                StringValue(IF CallProject = ""
                            THEN TraceIDText(CallSpan.TraceID)
                            ELSE "projects/" \o CallProject \o "/traces/"
                                 \o TraceIDText(CallSpan.TraceID))

\* C3: with floor F and a record of level L, the sink receives a write iff
\* L >= F, and below the floor neither the decorator's Handle nor the base
\* sink's Handle runs.
C3_FloorFilters ==
    call.op # "none" =>
        /\ Written <=> call.level >= CallFloor
        /\ nBase = 1 <=> call.level >= CallFloor
        /\ call.level < CallFloor => (nHandle = 0 /\ nBase = 0 /\ handed = <<>>)

C3_Witness ==
    /\ call.op # "none"
    /\ CallFloor = WarnLevel
    /\ call.level = InfoLevel
    /\ ~Written
    /\ nHandle = 0
    /\ nBase = 0

\* C5: the record handed to the base sink carries a string attribute
\* stacktrace if and only if its level is Warn or above.
C5_StacktraceFromWarn ==
    handed # <<>> =>
        LET as == handed[1].attrs
        IN /\ handed[1].Level >= WarnLevel =>
                /\ Cardinality(WithKey(as, StacktraceKey)) = 1
                /\ \A i \in WithKey(as, StacktraceKey) : as[i].value.kind = "String"
           /\ handed[1].Level < WarnLevel => WithKey(as, StacktraceKey) = {}

C5_Witness ==
    /\ handed # <<>>
    /\ handed[1].Level = WarnLevel
    /\ Cardinality(WithKey(handed[1].attrs, StacktraceKey)) = 1

SeverityWords == {"DEBUG", "INFO", "WARNING", "ERROR", "CRITICAL", "EMERGENCY"}

SeverityOf(level) ==
    CASE level = DebugLevel -> "DEBUG"
      [] level = InfoLevel -> "INFO"
      [] level = WarnLevel -> "WARNING"
      [] level = ErrorLevel -> "ERROR"
      [] level = DPanicLevel -> "ERROR"
      [] level = PanicLevel -> "CRITICAL"
      [] level = FatalLevel -> "EMERGENCY"
      [] OTHER -> "none"

\* C7: every record written, at whatever level it was logged, carries its
\* level under the key severity with one of the values DEBUG, INFO, WARNING,
\* ERROR, CRITICAL, EMERGENCY (Debug->DEBUG, Info->INFO, Warn->WARNING,
\* Error->ERROR, DPanic->ERROR, Panic->CRITICAL, Fatal->EMERGENCY).
C7_SeverityVocabulary ==
    Written =>
        /\ Cardinality(TopLevel(out[1], "severity")) = 1
        /\ \A i \in TopLevel(out[1], "severity") :
              /\ out[1][i].value \in {StringValue(w) : w \in SeverityWords}
              /\ call.level \in NamedLevels =>
                    out[1][i].value = StringValue(SeverityOf(call.level))

Last(S) == CHOOSE i \in S : \A j \in S : j <= i

\* C4: Handle merges the logger fields of the context into the record before
\* the call-site attributes, so that where both have an attribute of the
\* same key the call-site one comes later in the record handed to the base
\* sink and its value wins.
C4_CallSiteAfterAmbient ==
    (handed # <<>> /\ ambient # <<>>) =>
        LET as == handed[1].attrs
            n == Len(ambient)
            m == Len(call.args)
            merged == SubSeq(as, 1, n + m)
        IN /\ SubSeq(as, 1, n) = ambient
           /\ SubSeq(as, n + 1, n + m) = call.args
           /\ \A i \in 1..m :
                 WithKey(ambient, call.args[i].key) # {} =>
                    merged[Last(WithKey(merged, call.args[i].key))].value =
                       call.args[Last(WithKey(call.args, call.args[i].key))].value

\* The fields ctx.Value finds for a context, as they were when attached
RECURSIVE AttachedOf(_)
AttachedOf(c) ==
    IF ctxs[c].kind = "fields" THEN attached[c]
    ELSE IF ctxs[c].parent = 0 THEN <<>>
    ELSE AttachedOf(ctxs[c].parent)

\* C10: the fields readable from a context are fixed when
\* ContextWithLoggerFields creates it: neither deriving a child context nor
\* writing into the slice passed in or into a slice read back changes what
\* later reads or later records of that context see.
C10_FieldsFixedAtAttach ==
    /\ \A c \in 1..Len(ctxs) : LoggerFieldsFromContext(c) = AttachedOf(c)
    /\ nHandle = 1 => ambient = AttachedOf(call.ctx)

-----------------------------------------------------------------------------

\* The function lines the loop of trimStack looks at (Go indices)
FrameLines(lines) == {i \in 1..(Len(lines) - 2) : i % 2 = 1}

AllFramesNoisy(lines) ==
    \A i \in FrameLines(lines) :
        \E k \in 1..Len(lines[i + 1]) :
            lines[i + 1][k] \in {"runtime/debug.", "log/slog.",
                                 "github.com/dentech-floss/logging/pkg/logging."}

\* C6: a trace in which every frame is noisy comes back whole; the result for
\* a non-empty trace is never empty and begins with the trace's first line.
C6_TrimKeepsNoisyTrace ==
    stackOut # <<>> =>
        /\ AllFramesNoisy(stackIn) => stackOut[1] = stackIn
        /\ stackIn # <<EmptyLine>> =>
              /\ stackOut[1] # <<EmptyLine>>
              /\ Len(stackOut[1]) >= 1
              /\ stackOut[1][1] = stackIn[1]

C6_Witness ==
    /\ stackIn = <<HeaderLine, SlogFrame, FileLine, SlogFrame, FileLine>>
    /\ stackOut = <<stackIn>>

-----------------------------------------------------------------------------

\* C8 as stated: every Panic call ends with a fault that carries the
\* message, every Fatal call with exit status 1, and in both cases the record
\* was handed to the sink exactly once, at Panic respectively Fatal level,
\* before that.
C8_AlwaysWrittenOnce ==
    /\ status = "panicking" =>
          (fault = call.msg /\ nBase = 1 /\ handed # <<>> /\ Written)
    /\ status = "exited" =>
          (exitCode = 1 /\ nBase = 1 /\ handed # <<>> /\ Written)

\* What a Panic or Fatal call has done once its Log call has returned
LoggedOnceIfEnabled(level) ==
    /\ call.level = level
    /\ IF level >= CallFloor
       THEN /\ nHandle = 1
            /\ nBase = 1
            /\ handed # <<>>
            /\ handed[1].Level = level
            /\ handed[1].Message = call.msg
            /\ Written
       ELSE nHandle = 0 /\ nBase = 0 /\ handed = <<>> /\ ~Written

\* C8, amended: the record is handed to the sink exactly once when the Panic
\* respectively Fatal level is at or above the logger's floor and not at all
\* otherwise, in either case before the fault is raised or the process exits;
\* the fault carries the message and the exit status is 1.
C8_WrittenOnceIfEnabled ==
    /\ pc = "PanicContext:panic" => (status = "running" /\ LoggedOnceIfEnabled(PanicLevel))
    /\ status = "panicking" => (fault = call.msg /\ LoggedOnceIfEnabled(PanicLevel))
    /\ pc = "FatalContext:exit" => (status = "running" /\ LoggedOnceIfEnabled(FatalLevel))
    /\ status = "exited" => (exitCode = 1 /\ LoggedOnceIfEnabled(FatalLevel))
    /\ status = "running" => (fault = "" /\ exitCode = 0)

C8_Witness ==
    /\ status = "panicking"
    /\ call.op = "LoggerWithContext.Panic"
    /\ fault = "boom"
    /\ nBase = 1
    /\ CallFloor = PanicLevel

-----------------------------------------------------------------------------

\* What the lineage of a logger says it has attached: the service group of
\* NewLogger, then what each With on the way added, under the groups open
\* at that point
RECURSIVE LineageGroups(_)
LineageGroups(l) ==
    IF lineage[l].parent = 0 THEN <<>>
    ELSE LineageGroups(lineage[l].parent)
         \o (IF lineage[l].group = "" THEN <<>> ELSE <<lineage[l].group>>)

RECURSIVE LineageAttrs(_)
LineageAttrs(l) ==
    IF lineage[l].parent = 0
    THEN <<[path |-> <<"serviceContext">>, key |-> "service",
            value |-> StringValue(ServiceName)]>>
    ELSE LineageAttrs(lineage[l].parent)
         \o [i \in 1..Len(lineage[l].attrs) |->
               [path |-> LineageGroups(lineage[l].parent),
                key |-> lineage[l].attrs[i].key,
                value |-> lineage[l].attrs[i].value]]

\* The entries of a written record that are neither built in nor of the call
Attached(rec, nCall) == SubSeq(rec, 5, Len(rec) - nCall)

\* C9: With returns a new logger with the receiver's attached attributes plus
\* the new ones and leaves the receiver unchanged: whatever is derived later,
\* a logger has, and writes, the attributes of its own lineage only.
C9_WithLeavesReceiver ==
    /\ \A l \in 1..Len(loggers) :
          /\ loggers[l].Handler.attrs = LineageAttrs(l)
          /\ loggers[l].Handler.groups = LineageGroups(l)
          /\ loggers[l].ProjectID = loggers[1].ProjectID
          /\ loggers[l].Handler.level = loggers[1].Handler.level
    /\ Written => Attached(out[1], Len(handed[1].attrs)) = LineageAttrs(call.l)

C9_Witness ==
    /\ Len(loggers) = 3
    /\ lineage[2] = [parent |-> 1, attrs |-> <<String("key", "other")>>, group |-> ""]
    /\ lineage[3] = [parent |-> 1,
                     attrs |-> <<String("user", "value"), String("key", "value")>>,
                     group |-> ""]
    /\ Written
    /\ call.l = 2
    /\ Attached(out[1], Len(handed[1].attrs)) =
          <<[path |-> <<"serviceContext">>, key |-> "service",
             value |-> StringValue(ServiceName)],
            [path |-> <<>>, key |-> "key", value |-> StringValue("other")]>>

-----------------------------------------------------------------------------
(* Masking of personal data: MaskSSN, MaskPhone, MaskEmail, MaskString and   *)
(* isDateLike.  Here a string is a string, and its byte at index i (counted  *)
(* from 1) is SubSeq(s, i, i).  The regular expressions are Go's (RE2        *)
(* syntax, leftmost-first matching, ASCII \d \s \w \b), each written as the  *)
(* matcher its pattern denotes.                                              *)

MaxTokens == 4

Ch(s, i) == SubSeq(s, i, i)

\* s[i:] counted from 1: the bytes of s from index i on
From(s, i) == SubSeq(s, i, Len(s))

\* \d
Digits == {"0", "1", "2", "3", "4", "5", "6", "7", "8", "9"}

\* \s
Spaces == {"\t", "\n", "\f", "\r", " "}

Lower == {"a", "b", "c", "d", "e", "f", "g", "h", "i", "j", "k", "l", "m",
          "n", "o", "p", "q", "r", "s", "t", "u", "v", "w", "x", "y", "z"}

Upper == {"A", "B", "C", "D", "E", "F", "G", "H", "I", "J", "K", "L", "M",
          "N", "O", "P", "Q", "R", "S", "T", "U", "V", "W", "X", "Y", "Z"}

\* \w
WordChars == Digits \cup Lower \cup Upper \cup {"_"}

IsWordAt(s, i) == i >= 1 /\ i <= Len(s) /\ Ch(s, i) \in WordChars

\* \b between the bytes i-1 and i of s
WordBoundary(s, i) == IsWordAt(s, i - 1) # IsWordAt(s, i)

\* How many bytes of s from index i on are in class, counting at most max
RECURSIVE Run(_, _, _, _)
Run(s, i, class, max) ==
    IF max = 0 \/ i > Len(s) THEN 0
    ELSE IF Ch(s, i) \notin class THEN 0
    ELSE 1 + Run(s, i + 1, class, max - 1)

\* strings.Repeat(c, n), n >= 0
RECURSIVE Repeat(_, _)
Repeat(c, n) == IF n <= 0 THEN "" ELSE c \o Repeat(c, n - 1)

\* strings.ReplaceAll(s, old, new): non-overlapping occurrences from the left;
\* an empty old matches before every byte and at the end
RECURSIVE ReplaceAll(_, _, _)
ReplaceAll(s, old, new) ==
    IF old = ""
    THEN IF s = "" THEN new ELSE new \o Ch(s, 1) \o ReplaceAll(From(s, 2), old, new)
    ELSE IF Len(s) < Len(old) THEN s
    ELSE IF SubSeq(s, 1, Len(old)) = old
         THEN new \o ReplaceAll(From(s, Len(old) + 1), old, new)
    ELSE Ch(s, 1) \o ReplaceAll(From(s, 2), old, new)

\* strings.Split(s, sep) for a one-byte sep
RECURSIVE Split(_, _, _)
Split(s, sep, i) ==
    LET n == Run(s, i, {Ch(s, j) : j \in 1..Len(s)} \ {sep}, Len(s))
    IN IF i + n > Len(s) THEN <<SubSeq(s, i, Len(s))>>
       ELSE <<SubSeq(s, i, i + n - 1)>> \o Split(s, sep, i + n + 1)

\* The result of a masking function: the string returned, unless it panicked
Returned(text) == [panic |-> FALSE, text |-> text]
Panicked == [panic |-> TRUE, text |-> ""]

\* ^\d{4}-\d{2}-\d{2}(T\d{2}:\d{2}:\d{2}Z)?$|^\d{8}$
DigitsAt(s, i, n) == Run(s, i, Digits, n) = n
LitAt(s, i, c) == i <= Len(s) /\ Ch(s, i) = c

isDateLike_unanchored(s) ==
    LET date == /\ DigitsAt(s, 1, 4) /\ LitAt(s, 5, "-") /\ DigitsAt(s, 6, 2)
                /\ LitAt(s, 8, "-") /\ DigitsAt(s, 9, 2)
    IN date \/ DigitsAt(s, 1, 8)

isDateLike(s) ==
    LET date == /\ DigitsAt(s, 1, 4) /\ LitAt(s, 5, "-") /\ DigitsAt(s, 6, 2)
                /\ LitAt(s, 8, "-") /\ DigitsAt(s, 9, 2)
        time == /\ LitAt(s, 11, "T") /\ DigitsAt(s, 12, 2) /\ LitAt(s, 14, ":")
                /\ DigitsAt(s, 15, 2) /\ LitAt(s, 17, ":") /\ DigitsAt(s, 18, 2)
                /\ LitAt(s, 20, "Z")
    IN \/ date /\ (Len(s) = 10 \/ (time /\ Len(s) = 20))
       \/ DigitsAt(s, 1, 8) /\ Len(s) = 8

\* (\+46|0)[\d\s-]{9,12}
PhoneClass == Digits \cup Spaces \cup {"-"}

phonePrefix(s, i) ==
    IF i + 2 <= Len(s) /\ SubSeq(s, i, i + 2) = "+46" THEN 3
    ELSE IF i <= Len(s) /\ Ch(s, i) = "0" THEN 1
    ELSE 0

ssnMatch_noBoundary(s, i) ==
    IF Run(s, i, Digits, 12) = 12 THEN i + 11 ELSE 0

\* \b\d{8}\d{4}\b
ssnMatch(s, i) ==
    IF WordBoundary(s, i) /\ Run(s, i, Digits, 12) = 12 /\ WordBoundary(s, i + 12)
    THEN i + 11 ELSE 0

\* The index of the last byte of the match of the phone pattern that starts
\* at byte i, 0 if there is none (the repetition is greedy)
phoneMatch(s, i) ==
    LET p == phonePrefix(s, i)
        n == Run(s, i + p, PhoneClass, 12)
    IN IF p > 0 /\ n >= 9 THEN i + p + n - 1 ELSE 0

\* \b[A-Za-z0-9._%+-]+@[A-Za-z0-9.-]+\.[A-Z|a-z]{2,}\b
LocalClass == Upper \cup Lower \cup Digits \cup {".", "_", "%", "+", "-"}
DomainClass == Upper \cup Lower \cup Digits \cup {".", "-"}
TLDClass == Upper \cup Lower \cup {"|"}

\* Greedy with backtracking: the longest domain first, then the longest
\* top-level part, for which the rest of the pattern matches
emailMatch(s, i) ==
    LET nl == Run(s, i, LocalClass, Len(s))
        at == i + nl
    IN IF ~WordBoundary(s, i) \/ nl = 0 \/ ~LitAt(s, at, "@") THEN 0
       ELSE LET nd == Run(s, at + 1, DomainClass, Len(s))
                ends == {m \in [d : 1..nd, e : 1..Len(s)] :
                            /\ LitAt(s, at + m.d + 1, ".")
                            /\ m.e - (at + m.d + 1) >= 2
                            /\ m.e - (at + m.d + 1) <= Run(s, at + m.d + 2, TLDClass, Len(s))
                            /\ WordBoundary(s, m.e + 1)}
            IN IF ends = {} THEN 0
               ELSE (CHOOSE m \in ends : \A o \in ends :
                        o.d < m.d \/ (o.d = m.d /\ o.e <= m.e)).e

Match(re, s, i) ==
    CASE re = "ssn" -> ssnMatch(s, i)
      [] re = "phone" -> phoneMatch(s, i)
      [] re = "email" -> emailMatch(s, i)

\* The matches ReplaceAllStringFunc visits in s from byte i on: leftmost
\* first, not overlapping
RECURSIVE FindAll(_, _, _)
FindAll(re, s, i) ==
    IF i > Len(s) THEN <<>>
    ELSE LET e == Match(re, s, i)
         IN IF e = 0 THEN FindAll(re, s, i + 1)
            ELSE <<[from |-> i, to |-> e]>> \o FindAll(re, s, e + 1)

RECURSIVE Splice_noTail(_, _, _, _)
Splice_noTail(s, ms, reps, k) ==
    LET i == IF k = 1 THEN 1 ELSE ms[k - 1].to + 1
    IN IF k > Len(ms) THEN ""
       ELSE SubSeq(s, i, ms[k].from - 1) \o reps[k] \o Splice_noTail(s, ms, reps, k + 1)

\* s with its matches ms[k], ms[k+1], ... replaced by reps[k], reps[k+1], ...
RECURSIVE Splice(_, _, _, _)
Splice(s, ms, reps, k) ==
    LET i == IF k = 1 THEN 1 ELSE ms[k - 1].to + 1
    IN IF k > Len(ms) THEN From(s, i)
       ELSE SubSeq(s, i, ms[k].from - 1) \o reps[k] \o Splice(s, ms, reps, k + 1)

\* regexp.ReplaceAllStringFunc, given what repl returned for each match
ReplaceAllStringFunc(s, ms, reps) ==
    IF \E k \in 1..Len(ms) : reps[k].panic THEN Panicked
    ELSE Returned(Splice(s, ms, [k \in 1..Len(ms) |-> reps[k].text], 1))

\* The func literal of MaskSSN
MaskSSN_func(ssn) ==
    IF Len(ssn) < 8 THEN Panicked
    ELSE Returned(Repeat("X", 8) \o From(ssn, 9))

MaskSSN(input) ==
    LET ms == FindAll("ssn", input, 1)
    IN ReplaceAllStringFunc(input, ms,
          [k \in 1..Len(ms) |-> MaskSSN_func(SubSeq(input, ms[k].from, ms[k].to))])

\* The strings.Map call of MaskPhone, from byte i of phone on, when index
\* bytes of maskedPhone are used up
RECURSIVE MapPhone(_, _, _, _)
MapPhone(phone, maskedPhone, i, index) ==
    IF i > Len(phone) THEN Returned("")
    ELSE IF Ch(phone, i) \in {" ", "-"}
         THEN LET r == MapPhone(phone, maskedPhone, i + 1, index)
              IN IF r.panic THEN Panicked ELSE Returned(Ch(phone, i) \o r.text)
    ELSE IF index >= Len(maskedPhone) THEN Panicked
    ELSE LET r == MapPhone(phone, maskedPhone, i + 1, index + 1)
         IN IF r.panic THEN Panicked
            ELSE Returned(Ch(maskedPhone, index + 1) \o r.text)

MaskPhone_func_keep4(phone) ==
    LET plainPhone == ReplaceAll(ReplaceAll(phone, " ", ""), "-", "")
        n == Len(plainPhone)
    IN IF isDateLike(plainPhone) THEN Returned(phone)
       ELSE IF n <= 8 THEN Returned(phone)
       ELSE LET midLen == n - 7
                maskedPhone == SubSeq(plainPhone, 1, 3) \o Repeat("X", midLen)
                                  \o From(plainPhone, n - 3)
            IN MapPhone(phone, maskedPhone, 1, 0)

MaskPhone_func_from6(phone) ==
    LET plainPhone == ReplaceAll(ReplaceAll(phone, " ", ""), "-", "")
        n == Len(plainPhone)
    IN IF n <= 6 THEN Returned(phone)
       ELSE LET midLen == n - 6
                maskedPhone == SubSeq(plainPhone, 1, 3) \o Repeat("X", midLen)
                                  \o From(plainPhone, n - 2)
            IN MapPhone(phone, maskedPhone, 1, 0)

\* The func literal of MaskPhone
MaskPhone_func(phone) ==
    LET plainPhone == ReplaceAll(ReplaceAll(phone, " ", ""), "-", "")
        n == Len(plainPhone)
    IN IF isDateLike(plainPhone) THEN Returned(phone)
       ELSE IF n <= 8 THEN Returned(phone)
       ELSE LET midLen == n - 6
                maskedPhone == SubSeq(plainPhone, 1, 3) \o Repeat("X", midLen)
                                  \o From(plainPhone, n - 2)
            IN MapPhone(phone, maskedPhone, 1, 0)

MaskPhone(input) ==
    LET ms == FindAll("phone", input, 1)
    IN ReplaceAllStringFunc(input, ms,
          [k \in 1..Len(ms) |-> MaskPhone_func(SubSeq(input, ms[k].from, ms[k].to))])

MaskEmail_func_from2(email) ==
    LET parts == Split(email, "@", 1)
        localPart == parts[1]
        domain == parts[2]
        n == Len(localPart)
    IN IF n >= 2
       THEN Returned(SubSeq(localPart, 1, 1) \o Repeat("X", n - 2)
                        \o From(localPart, n) \o "@" \o domain)
       ELSE Returned(Repeat("X", n) \o "@" \o domain)

\* The func literal of MaskEmail
MaskEmail_func(email) ==
    LET parts == Split(email, "@", 1)
    IN IF Len(parts) < 2 THEN Panicked
       ELSE LET localPart == parts[1]
                domain == parts[2]
                n == Len(localPart)
            IN IF n > 2
               THEN Returned(SubSeq(localPart, 1, 1) \o Repeat("X", n - 2)
                                \o From(localPart, n) \o "@" \o domain)
               ELSE Returned(Repeat("X", n) \o "@" \o domain)

MaskEmail(input) ==
    LET ms == FindAll("email", input, 1)
    IN ReplaceAllStringFunc(input, ms,
          [k \in 1..Len(ms) |-> MaskEmail_func(SubSeq(input, ms[k].from, ms[k].to))])

MaskString_oneX(input, toMask) ==
    Returned(ReplaceAll(input, toMask, "X"))

MaskString(input, toMask) ==
    Returned(ReplaceAll(input, toMask, Repeat("X", Len(toMask))))

-----------------------------------------------------------------------------
(* The strings the masking functions are applied to *)

\* The inputs of the package's tests and of its documentation
TestTexts ==
    {"+467338878654", "07338878654", "1234", "+468123456789",
     "Contact +467338878654 or 07338878654", "+46 733 887 8654",
     "+46-733-887-8654", "2020-01-01", "20200101", "2019-09-08T10:32:21Z",
     "john.doe@example.com", "jd@example.com", "avery.long.email@example.com",
     "Contact john.doe@example.com and jane.smith@domain.org",
     "username@domain.com", "user1234@domain.net", "0733887865"}

\* Digit runs of several lengths next to letters and separators, dates with
\* other digits, and a date followed by a line end
MoreTexts ==
    {"199001011234", "id 199001011234.", "a199001011234", "1990010112345",
     "199001011234 200002022345", "19900101123", "199001011234_",
     "0123-45-67", "0000-00-00", "00000000", "0123-45-67T01:23:45Z",
     "2020-01-01\n", "20200101\n", "2020-1-01", "2020-01-01T10:32:21",
     "x2020-01-01", "+46\t733\t887\t865", "a.b@c.de", "a@b.c|d", "a@b@c.de",
     "-a@b.cd", "a_b@c.d",
     "2020-01-01 12:30", "2020-01-01 12345", "20200101 1234", "2020-01-01-5",
     "1999-12-31 12345", "on 2021-11-12 07338878654",
     "aaXX", "aXaX", "XaaX", "tokenX tokenXX"}

\* Strings of the three date-like shapes and near them, with several digits
DateTexts ==
    {y \o sep \o m \o sep \o d \o t :
        y \in {"2020", "0123", "0000", "1046"}, sep \in {"-", ""},
        m \in {"01", "46"}, d \in {"01", "00"},
        t \in {"", "T10:32:21Z", "T00:00:00Z"}}

MaskTokens == {"0", "+46", "111111111", "12", " ", "-", "a", "@", ".se"}

\* The strings made of at most n tokens
RECURSIVE TokenTexts(_)
TokenTexts(n) ==
    IF n = 0 THEN {""}
    ELSE {""} \cup {t \o w : t \in MaskTokens, w \in TokenTexts(n - 1)}

MaskTexts == TestTexts \cup MoreTexts \cup DateTexts \cup TokenTexts(MaxTokens)

Literals == {"", "a", "aa", "0-", "111", "aX", "Xa", "X"}

MaskSSNCall ==
    /\ maskFn = ""
    /\ maskFn' = "MaskSSN"
    /\ maskOut' = <<MaskSSN(maskIn)>>
    /\ UNCHANGED <<heapVars, callVars, procVars, trimVars, maskIn, maskLit, httpVars, retVars, unitVars>>

MaskPhoneCall ==
    /\ maskFn = ""
    /\ maskFn' = "MaskPhone"
    /\ maskOut' = <<MaskPhone(maskIn)>>
    /\ UNCHANGED <<heapVars, callVars, procVars, trimVars, maskIn, maskLit, httpVars, retVars, unitVars>>

MaskEmailCall ==
    /\ maskFn = ""
    /\ maskFn' = "MaskEmail"
    /\ maskOut' = <<MaskEmail(maskIn)>>
    /\ UNCHANGED <<heapVars, callVars, procVars, trimVars, maskIn, maskLit, httpVars, retVars, unitVars>>

MaskStringCall ==
    /\ maskFn = ""
    /\ maskFn' = "MaskString"
    /\ \E toMask \in Literals :
          /\ maskLit' = toMask
          /\ maskOut' = <<MaskString(maskIn, toMask)>>
    /\ UNCHANGED <<heapVars, callVars, procVars, trimVars, maskIn, httpVars, retVars, unitVars>>

isDateLikeCall ==
    /\ maskFn = ""
    /\ maskFn' = "isDateLike"
    /\ maskOut' = <<[panic |-> FALSE, match |-> isDateLike(maskIn)]>>
    /\ UNCHANGED <<heapVars, callVars, procVars, trimVars, maskIn, maskLit, httpVars, retVars, unitVars>>

InitMask ==
    /\ Constructed(TestConfig)
    /\ NoTrim /\ NoTransport /\ NoReturn /\ NoUnit
    /\ maskFn = ""
    /\ maskIn \in MaskTexts
    /\ maskLit = ""
    /\ maskOut = <<>>

NextMask ==
    \/ MaskSSNCall
    \/ MaskPhoneCall
    \/ MaskEmailCall
    \/ MaskStringCall
    \/ isDateLikeCall

SpecMask == InitMask /\ [][NextMask]_vars

-----------------------------------------------------------------------------
(* Properties of the masking functions.  They speak of the one call made:   *)
(* the function (maskFn), its input (maskIn, maskLit) and its result.        *)

MaskResult == maskOut[1]

Called(fn) == maskFn = fn /\ maskOut # <<>>

Separators == {" ", "-"}

\* s without its spaces and dashes
RECURSIVE StripSeparators(_)
StripSeparators(s) ==
    IF s = "" THEN ""
    ELSE (IF Ch(s, 1) \in Separators THEN "" ELSE Ch(s, 1)) \o StripSeparators(From(s, 2))

\* How many of the first i bytes of s are no separators
Rank(s, i) == Cardinality({j \in 1..i : Ch(s, j) \notin Separators})

\* s with every decimal digit written as 9
RECURSIVE Shape(_)
Shape(s) ==
    IF s = "" THEN ""
    ELSE (IF Ch(s, 1) \in Digits THEN "9" ELSE Ch(s, 1)) \o Shape(From(s, 2))

DateShapes == {"9999-99-99", "9999-99-99T99:99:99Z", "99999999"}

\* The part of string t that lies where match m lies in the input
Part(t, m) == SubSeq(t, m.from, m.to)

InMatch(ms, j) == \E k \in 1..Len(ms) : ms[k].from <= j /\ j <= ms[k].to

\* Outside the matches ms, the result has the bytes of the input
SameOutside(ms) ==
    /\ ~MaskResult.panic
    /\ Len(MaskResult.text) = Len(maskIn)
    /\ \A j \in 1..Len(maskIn) : InMatch(ms, j) \/ Ch(MaskResult.text, j) = Ch(maskIn, j)

\* The byte at index i of a masked phone number m, as the documentation has it
PhoneByte(m, i) ==
    LET n == Len(StripSeparators(m))
    IN IF Ch(m, i) \in Separators THEN Ch(m, i)
       ELSE IF Rank(m, i) <= 3 \/ Rank(m, i) > n - 3 THEN Ch(m, i)
       ELSE "X"

\* C11: each match of the phone pattern whose form without spaces and dashes
\* has more than 8 bytes and is not date-like is replaced by its first 3 and
\* last 3 such bytes with X for every byte between them, the spaces and dashes
\* staying where they were; a match with 8 or fewer such bytes is left as it is
C11_PhoneMasked ==
    Called("MaskPhone") =>
        LET ms == FindAll("phone", maskIn, 1)
        IN /\ SameOutside(ms)
           /\ \A k \in 1..Len(ms) :
                 LET m == Part(maskIn, ms[k])
                     r == Part(MaskResult.text, ms[k])
                     plain == StripSeparators(m)
                 IN /\ Len(plain) > 8 /\ Shape(plain) \notin DateShapes
                          => \A i \in 1..Len(m) : Ch(r, i) = PhoneByte(m, i)
                    /\ Len(plain) <= 8 => r = m

C11_Witness ==
    /\ Called("MaskPhone")
    /\ maskIn = "+46 733 887 8654"
    /\ MaskResult = Returned("+46 XXX XXX 8654")

\* C12: MaskPhone returns a string that as a whole is date-like unchanged
C12_DateUnchanged ==
    Called("MaskPhone") /\ Shape(maskIn) \in DateShapes
        => MaskResult = Returned(maskIn)

\* a date in which the phone pattern finds a match
C12_Witness ==
    /\ Called("MaskPhone")
    /\ maskIn = "0123-45-67"
    /\ FindAll("phone", maskIn, 1) # <<>>
    /\ MaskResult = Returned(maskIn)

\* C13: in each address matched, a local part of more than 2 bytes keeps its
\* first and last byte and has X for each byte between, a shorter one is all
\* X; the @ and the domain stay, and so does the text outside the matches
C13_EmailMasked ==
    Called("MaskEmail") =>
        LET ms == FindAll("email", maskIn, 1)
        IN /\ SameOutside(ms)
           /\ \A k \in 1..Len(ms) :
                 LET m == Part(maskIn, ms[k])
                     r == Part(MaskResult.text, ms[k])
                     at == CHOOSE i \in 1..Len(m) : Ch(m, i) = "@"
                 IN /\ From(r, at) = From(m, at)
                    /\ \A i \in 1..(at - 1) :
                          Ch(r, i) = IF at - 1 > 2 /\ i \in {1, at - 1} THEN Ch(m, i)
                                     ELSE "X"

C13_Witness ==
    /\ Called("MaskEmail")
    /\ maskIn = "Contact john.doe@example.com and jane.smith@domain.org"
    /\ MaskResult = Returned("Contact jXXXXXXe@example.com and jXXXXXXXXh@domain.org")

\* A token of 12 digits starts at byte i of s: 12 digits with no letter,
\* digit or underscore next to them
SSNAt(s, i) ==
    /\ i + 11 <= Len(s)
    /\ \A j \in i..(i + 11) : Ch(s, j) \in Digits
    /\ ~IsWordAt(s, i - 1)
    /\ ~IsWordAt(s, i + 12)

\* C14: MaskSSN writes X over the first 8 digits of every token of 12 digits
\* and keeps its last 4; every other byte of the text stays
C14_SSNMasked ==
    Called("MaskSSN") =>
        /\ ~MaskResult.panic
        /\ Len(MaskResult.text) = Len(maskIn)
        /\ \A j \in 1..Len(maskIn) :
              Ch(MaskResult.text, j) =
                 IF \E i \in (j - 7)..j : i >= 1 /\ SSNAt(maskIn, i) THEN "X"
                 ELSE Ch(maskIn, j)

C14_Witness ==
    /\ Called("MaskSSN")
    /\ maskIn = "199001011234 200002022345"
    /\ MaskResult = Returned("XXXXXXXX1234 XXXXXXXX2345")

OccursAt(s, lit, i) ==
    lit # "" /\ i >= 1 /\ i + Len(lit) - 1 <= Len(s) /\ SubSeq(s, i, i + Len(lit) - 1) = lit

\* C15 as stated: every occurrence of the literal is replaced by X's, nothing
\* else changes and the length stays; an empty literal changes nothing
C15_EveryOccurrenceMasked ==
    Called("MaskString") =>
        /\ ~MaskResult.panic
        /\ Len(MaskResult.text) = Len(maskIn)
        /\ \A j \in 1..Len(maskIn) :
              Ch(MaskResult.text, j) =
                 IF \E i \in (j - Len(maskLit) + 1)..j : OccursAt(maskIn, maskLit, i)
                 THEN "X" ELSE Ch(maskIn, j)

\* The occurrence at byte i is one a search from the left finds, each search
\* resuming behind the occurrence found before
RECURSIVE Found(_, _, _)
Found(s, lit, i) ==
    /\ OccursAt(s, lit, i)
    /\ \A h \in (i - Len(lit) + 1)..(i - 1) : ~Found(s, lit, h)

\* C15, amended: the occurrences found from the left without overlap are
\* replaced by X's, nothing else changes and the length stays; an empty
\* literal changes nothing
C15_FoundOccurrencesMasked ==
    Called("MaskString") =>
        /\ ~MaskResult.panic
        /\ Len(MaskResult.text) = Len(maskIn)
        /\ \A j \in 1..Len(maskIn) :
              Ch(MaskResult.text, j) =
                 IF \E i \in (j - Len(maskLit) + 1)..j : Found(maskIn, maskLit, i)
                 THEN "X" ELSE Ch(maskIn, j)

C15_Witness ==
    /\ Called("MaskString")
    /\ maskIn = "aaa" /\ maskLit = "aa"
    /\ MaskResult = Returned("XXa")

\* C16: isDateLike holds exactly of the strings that have, as a whole, the
\* shape YYYY-MM-DD, YYYY-MM-DDThh:mm:ssZ or YYYYMMDD
C16_DateLikeShapes ==
    Called("isDateLike") =>
        /\ ~MaskResult.panic
        /\ MaskResult.match = (Shape(maskIn) \in DateShapes)
        /\ maskIn \in {"20200101", "2020-01-01", "2019-09-08T10:32:21Z"} => MaskResult.match
        /\ maskIn = "0733887865" => ~MaskResult.match

C16_Witness ==
    /\ Called("isDateLike")
    /\ maskIn = "2019-09-08T10:32:21Z"
    /\ MaskResult.match

Pattern(fn) ==
    CASE fn = "MaskSSN" -> "ssn"
      [] fn = "MaskPhone" -> "phone"
      [] fn = "MaskEmail" -> "email"

PatternFns == {"MaskSSN", "MaskPhone", "MaskEmail"}

\* C17: a string in which the pattern of MaskPhone, MaskEmail or MaskSSN has
\* no match is returned unchanged, and no masking function panics
C17_NoMatchIdentity ==
    maskOut # <<>> =>
        /\ ~MaskResult.panic
        /\ (maskFn \in PatternFns /\ \A i \in 1..Len(maskIn) : Match(Pattern(maskFn), maskIn, i) = 0)
              => MaskResult = Returned(maskIn)

C17_Witness ==
    /\ Called("MaskPhone")
    /\ maskIn = "1234"
    /\ MaskResult = Returned("1234")

Again(fn, text) ==
    CASE fn = "MaskSSN" -> MaskSSN(text)
      [] fn = "MaskPhone" -> MaskPhone(text)
      [] fn = "MaskEmail" -> MaskEmail(text)

\* C18: MaskPhone, MaskEmail and MaskSSN applied to their own result return it
\* unchanged
C18_Idempotent ==
    maskOut # <<>> /\ maskFn \in PatternFns /\ ~MaskResult.panic
        => Again(maskFn, MaskResult.text) = MaskResult

-----------------------------------------------------------------------------
(* The logging http.RoundTripper: LoggingTransport.  An error is its text,  *)
(* "" for nil; a *http.Response is <<>> for nil and else <<response>>;       *)
(* durations are in nanoseconds.                                             *)

IntField(key, value) == [key |-> key, value |-> [kind |-> "Int64", v |-> value]]
Int64(key, value) == [key |-> key, value |-> [kind |-> "Int64", v |-> value]]
Duration(key, duration) == [key |-> key, value |-> [kind |-> "Duration", v |-> duration]]
AnyField(key, value) == [key |-> key, value |-> [kind |-> "Any", v |-> value]]
Error(err) == AnyField("error", err)
Label(key, value) == Group("logging.googleapis.com/labels", <<String(key, value)>>)

logTypeValueExternalRequest == "external_request"

\* context.WithValue(ctx, loggerContextKey{}, logger)
NewLoggerContext(parent, l) ==
    [kind |-> "logger", parent |-> parent, fields |-> 0, span |-> NoSpanContext,
     logger |-> l]

LoggerFromContext_none(c) == 0

\* LoggerFromContext(ctx): the logger bound nearest to ctx, 0 for nil
RECURSIVE LoggerFromContext(_)
LoggerFromContext(c) ==
    IF ctxs[c].kind = "logger" THEN ctxs[c].logger
    ELSE IF ctxs[c].parent = 0 THEN 0
    ELSE LoggerFromContext(ctxs[c].parent)

\* ContextWithLogger(parent, logger); logger can be nil (0)
ContextWithLogger ==
    /\ Idle
    /\ Len(ctxs) < MaxContexts
    /\ \E parent \in 1..Len(ctxs), l \in 0..Len(loggers) :
          ctxs' = Append(ctxs, NewLoggerContext(parent, l))
    /\ attached' = Append(attached, <<>>)
    /\ UNCHANGED <<loggers, lineage, lwcs, arrays, held, callVars, procVars, trimVars, maskVars, httpVars, retVars, unitVars>>

\* *LoggingOptions: nil, or the two functions, each nil or the package's own
LoggingOptions ==
    {<<>>} \cup {<<[DumpRequestFunc |-> f, DumpResponseFunc |-> g]>> :
                    f \in {"", "DumpRequest"}, g \in {"", "DumpResponse"}}

\* NewLoggingTransport(base, logger, options); what base does shows when it
\* is called
NewLoggingTransport ==
    /\ Idle
    /\ transport = <<>>
    /\ \E l \in 1..Len(loggers), o \in LoggingOptions :
          transport' = <<[l |-> l, o |-> o]>>
    /\ UNCHANGED <<heapVars, callVars, procVars, trimVars, maskVars, rtCalls, trip, retVars, unitVars>>

\* DumpRequest(loggerFields, req) for a request that is not nil; dumped tells
\* whether httputil.DumpRequestOut succeeded
DumpRequest(loggerFields, dumped) ==
    IF dumped THEN Append(loggerFields, String("request", "GET / HTTP/1.1"))
    ELSE Append(loggerFields, String("request_dump_error", "Error dumping request"))

\* DumpResponse(loggerFields, resp)
DumpResponse(loggerFields, resp, dumped) ==
    IF resp = <<>>
    THEN Append(loggerFields,
                String("response_dump_error", "Error dumping response: nil request"))
    ELSE IF dumped THEN Append(loggerFields, String("response", "HTTP/1.1"))
    ELSE Append(loggerFields, String("response_dump_error", "Error dumping response"))

\* What the wrapped RoundTripper can return
StatusCodes == {200, 503}
Errs == {"connection refused"}
RoundTripResults ==
    [resp : {<<>>} \cup {<<[StatusCode |-> n]>> : n \in StatusCodes},
     err : {""} \cup Errs]

Durations == {0, 1500000}

\* The fields RoundTrip has when it calls the wrapped RoundTripper
requestFields(o, url, dumped) ==
    LET loggerFields == <<Label("log_type", logTypeValueExternalRequest),
                          String("url", url)>>
    IN IF o # <<>> /\ o[1].DumpRequestFunc # ""
       THEN DumpRequest(loggerFields, dumped)
       ELSE loggerFields

durationFields(loggerFields, duration) ==
    loggerFields \o <<Duration("duration", duration),
                      Int64("duration_ms", duration \div 1000000)>>

errorFields_none(loggerFields, err) == loggerFields

errorFields(loggerFields, err) == Append(loggerFields, Error(err))

responseFields_noStatus(o, loggerFields, resp, dumped) ==
    IF o # <<>> /\ o[1].DumpResponseFunc # ""
    THEN DumpResponse(loggerFields, resp, dumped)
    ELSE loggerFields

responseFields(o, loggerFields, resp, dumped) ==
    Append(IF o # <<>> /\ o[1].DumpResponseFunc # ""
           THEN DumpResponse(loggerFields, resp, dumped)
           ELSE loggerFields,
           IntField("status", resp[1].StatusCode))

NoResult == [resp |-> <<>>, err |-> ""]

\* lt.RoundTrip(req) for a request with context c
RoundTrip ==
    /\ Idle
    /\ transport # <<>>
    /\ \E c \in 1..Len(ctxs), got \in RoundTripResults, duration \in Durations,
          dumped \in BOOLEAN :
          LET lt == transport[1]
              req == [ctx |-> c, URL |-> "http://example.com"]
              l == IF LoggerFromContext(c) = 0 THEN lt.l ELSE LoggerFromContext(c)
              loggerFields == durationFields(requestFields(lt.o, req.URL, dumped), duration)
          IN /\ rtCalls' = 1
             /\ IF got.err # ""
                THEN /\ log("LoggingTransport.RoundTrip", l, c, ErrorLevel,
                            "call to external service FAILED",
                            errorFields(loggerFields, got.err))
                     /\ trip' = <<[req |-> req, got |-> got,
                                   ret |-> [resp |-> <<>>, err |-> got.err]]>>
                     /\ UNCHANGED procVars
                ELSE IF got.resp = <<>>
                THEN \* resp.StatusCode of a nil response
                     /\ status' = "panicking"
                     /\ fault' = "nil pointer dereference"
                     /\ pc' = "unwound"
                     /\ trip' = <<[req |-> req, got |-> got, ret |-> NoResult]>>
                     /\ UNCHANGED <<callVars, exitCode>>
                ELSE /\ log("LoggingTransport.RoundTrip", l, c, InfoLevel,
                            "called external service",
                            responseFields(lt.o, loggerFields, got.resp, dumped))
                     /\ trip' = <<[req |-> req, got |-> got,
                                   ret |-> [resp |-> got.resp, err |-> ""]]>>
                     /\ UNCHANGED procVars
    /\ UNCHANGED <<heapVars, trimVars, maskVars, transport, retVars, unitVars>>

\* Loggers of every floor
InitHTTP ==
    /\ \E config \in LoggerConfigs :
          config.ProjectID = TestConfig.ProjectID /\ Constructed(config)
    /\ NoTrim /\ NoMask /\ NoTransport /\ NoReturn /\ NoUnit

NextHTTP ==
    \/ ContextWithLogger
    \/ NewLoggingTransport
    \/ RoundTrip

SpecHTTP == InitHTTP /\ [][NextHTTP]_vars

-----------------------------------------------------------------------------
(* Properties of RoundTrip.  They speak of the last RoundTrip (trip) and of  *)
(* the logging call it made.                                                 *)

Tripped == trip # <<>> /\ status = "running"

\* The last RoundTrip handed one record of this level and message to the sink
TripLogged(level, msg) ==
    /\ call.op = "LoggingTransport.RoundTrip"
    /\ nHandle = 1
    /\ nBase = 1
    /\ handed[1].Level = level
    /\ handed[1].Message = msg
    /\ Written
    /\ \E i \in TopLevel(out[1], "severity") :
          out[1][i].value = StringValue(SeverityOf(level))
    /\ \E i \in TopLevel(out[1], "message") : out[1][i].value = StringValue(msg)

\* The last RoundTrip wrote nothing
TripSilent ==
    /\ call.op = "LoggingTransport.RoundTrip"
    /\ nHandle = 0
    /\ nBase = 0
    /\ ~Written

\* The record written has exactly one top-level entry with this key and value
OneEntry(key, value) ==
    /\ Cardinality(TopLevel(out[1], key)) = 1
    /\ \A i \in TopLevel(out[1], key) : out[1][i].value = value

SuccessLogged ==
    /\ TripLogged(InfoLevel, "called external service")
    /\ OneEntry("status", [kind |-> "Int64", v |-> trip[1].got.resp[1].StatusCode])

SuccessReturned ==
    /\ rtCalls = 1
    /\ trip[1].ret = [resp |-> trip[1].got.resp, err |-> ""]

\* C19 as stated: when the wrapped RoundTripper returns a response and no
\* error, exactly one record is written, at Info with the message "called
\* external service" and status = the response's status code; the wrapped
\* RoundTripper ran once and its response is returned with a nil error
C19_SuccessLoggedOnce ==
    (Tripped /\ trip[1].got.resp # <<>> /\ trip[1].got.err = "")
        => SuccessLogged /\ SuccessReturned

\* C19, amended: that record is written exactly once when Info is at or above
\* the floor of the logger in use, and nothing is written otherwise; in either
\* case the wrapped RoundTripper ran once and its response is returned with a
\* nil error
C19_SuccessLoggedOnceIfEnabled ==
    (Tripped /\ trip[1].got.resp # <<>> /\ trip[1].got.err = "")
        => /\ IF InfoLevel >= CallFloor THEN SuccessLogged ELSE TripSilent
           /\ SuccessReturned

C19_Witness ==
    /\ Tripped
    /\ trip[1].got = [resp |-> <<[StatusCode |-> 200]>>, err |-> ""]
    /\ CallFloor = DebugLevel
    /\ SuccessLogged
    /\ SuccessReturned

FailureLogged ==
    /\ TripLogged(ErrorLevel, "call to external service FAILED")
    /\ OneEntry("error", [kind |-> "Any", v |-> trip[1].got.err])
    /\ TopLevel(out[1], "status") = {}

FailureReturned ==
    /\ rtCalls = 1
    /\ trip[1].ret = [resp |-> <<>>, err |-> trip[1].got.err]

\* C20 as stated: when the wrapped RoundTripper returns an error, exactly one
\* record is written, at Error with the message "call to external service
\* FAILED" and the error as an attribute, and no "called external service"
\* record; RoundTrip returns a nil response and that error
C20_FailureLoggedOnce ==
    (Tripped /\ trip[1].got.err # "") => FailureLogged /\ FailureReturned

\* C20, amended: that record is written exactly once when Error is at or
\* above the floor of the logger in use, and nothing is written otherwise; in
\* either case RoundTrip returns a nil response and the error
C20_FailureLoggedOnceIfEnabled ==
    (Tripped /\ trip[1].got.err # "")
        => /\ IF ErrorLevel >= CallFloor THEN FailureLogged ELSE TripSilent
           /\ FailureReturned

C20_Witness ==
    /\ Tripped
    /\ trip[1].got = [resp |-> <<[StatusCode |-> 503]>>, err |-> "connection refused"]
    /\ CallFloor = ErrorLevel
    /\ FailureLogged
    /\ FailureReturned

-----------------------------------------------------------------------------
(* The trace fields of the record handed to the base sink *)

\* A span context with a trace ID and a span ID that are not all zero
NonZero(bytes) == bytes # [i \in 1..Len(bytes) |-> 0]

ValidSpan(s) == NonZero(s.TraceID) /\ NonZero(s.SpanID)

\* C22: the record handed to the base sink carries each of
\* logging.googleapis.com/trace, logging.googleapis.com/spanId and
\* logging.googleapis.com/trace_sampled exactly once, the last a boolean equal
\* to the span's sampled flag, when the span context of the call's context is
\* valid, and none of the three when it is absent or invalid.
C22_SpanFieldsOnce ==
    handed # <<>> =>
        LET as == handed[1].attrs
        IN IF ValidSpan(CallSpan)
           THEN /\ \A k \in {TraceKey, SpanIdKey, TraceSampledKey} :
                      Cardinality(WithKey(as, k)) = 1
                /\ \A i \in WithKey(as, TraceSampledKey) :
                      as[i].value = BoolValue(CallSpan.Sampled)
           ELSE \A k \in {TraceKey, SpanIdKey, TraceSampledKey} : WithKey(as, k) = {}

C22_Witness ==
    /\ handed # <<>>
    /\ CallSpan = SpanContext(HighTraceID, TestSpanID, TRUE)
    /\ \E i \in WithKey(handed[1].attrs, TraceSampledKey) :
          handed[1].attrs[i].value = BoolValue(TRUE)
    /\ Cardinality(WithKey(handed[1].attrs, TraceKey)) = 1
    /\ Cardinality(WithKey(handed[1].attrs, SpanIdKey)) = 1

\* The other case of C22: a span context without a trace ID
C22_WitnessInvalid ==
    /\ handed # <<>>
    /\ CallSpan = SpanContext(ZeroTraceID, TestSpanID, TRUE)
    /\ WithKey(handed[1].attrs, TraceKey) = {}

-----------------------------------------------------------------------------

\* strings.HasPrefix(line, prefix) for some noisy prefix, on a line kept as
\* its segments
StartsNoisy(line) ==
    /\ Len(line) >= 1
    /\ line[1] \in {"runtime/debug.", "log/slog.",
                    "github.com/dentech-floss/logging/pkg/logging."}

\* C25: trimStack removes only a leading run of frames whose function line
\* starts with a noisy prefix: the result of a trace of more than one line is
\* its header line followed by its lines from some line k on, unmodified and
\* in order, where every frame before k starts with a noisy prefix and the
\* frame at k, if there is one, does not.
C25_RemovesOnlyPrefixedFrames ==
    (stackOut # <<>> /\ Len(stackIn) > 1) =>
        \E k \in 1..(Len(stackIn) - 1) :
            /\ stackOut[1] = <<stackIn[1]>> \o JoinLines(SubSeq(stackIn, k + 1, Len(stackIn)))
            /\ \A i \in FrameLines(stackIn) : i < k => StartsNoisy(stackIn[i + 1])
            /\ (k > 1 /\ k \in FrameLines(stackIn)) => ~StartsNoisy(stackIn[k + 1])

\* The trace on which C25 fails: the first frame is of another package whose
\* path contains log/slog., and trimStack removes it
C25_ForkFrameRemoved ==
    /\ stackIn = <<HeaderLine, ForkFrame, FileLine, MainFrame, FileLine>>
    /\ stackOut = << <<HeaderLine, MainFrame, FileLine>> >>

-----------------------------------------------------------------------------

\* A date YYYY-MM-DD (n = 10) or YYYYMMDD (n = 8) begins at byte p of s, not
\* inside a longer run of digits, and a space or dash and a digit follow it
DateTokenAt(s, p, n) ==
    /\ p + n + 1 <= Len(s)
    /\ Shape(SubSeq(s, p, p + n - 1)) = (IF n = 10 THEN "9999-99-99" ELSE "99999999")
    /\ p > 1 => Ch(s, p - 1) \notin Digits
    /\ Ch(s, p + n) \in {" ", "-"}
    /\ Ch(s, p + n + 1) \in Digits

\* C29: MaskPhone leaves every date that is followed by a space or dash and
\* further digits as it is: each of its bytes is the same in the output as in
\* the input.
C29_DateInTextUnchanged ==
    (Called("MaskPhone") /\ ~MaskResult.panic) =>
        \A p \in 1..Len(maskIn), n \in {8, 10} :
            DateTokenAt(maskIn, p, n) =>
                SubSeq(MaskResult.text, p, p + n - 1) = SubSeq(maskIn, p, p + n - 1)

\* The call on which C29 fails: the match begins at the first 0 of the date
\* and runs into the digits behind it
C29_DateMasked ==
    /\ Called("MaskPhone")
    /\ maskIn = "2020-01-01 12345"
    /\ MaskResult = Returned("2020-XX-XX 12345")

-----------------------------------------------------------------------------

\* C30: when the literal is not empty and has a byte other than X, the result
\* of MaskString(text, literal) contains no occurrence of literal.
C30_LiteralGone ==
    (Called("MaskString") /\ maskLit # ""
        /\ \E i \in 1..Len(maskLit) : Ch(maskLit, i) # "X") =>
        /\ ~MaskResult.panic
        /\ \A i \in 1..Len(MaskResult.text) : ~OccursAt(MaskResult.text, maskLit, i)

\* The call on which C30 fails: the X's written for one occurrence complete a
\* new one with the text around them
C30_LiteralRemade ==
    /\ Called("MaskString")
    /\ maskIn = "aaXX"
    /\ maskLit = "aX"
    /\ MaskResult = Returned("aXXX")

-----------------------------------------------------------------------------
(* replacer on its own: the JSON handler calls ReplaceAttr with no groups   *)
(* for the four built-in fields of a record, and with the open groups for   *)
(* every attribute the calling code supplied.                               *)

\* replacer, line 352: the type assertion a.Value.Any().(slog.Level) panics
\* on a value that is not a slog.Level
replacer_panics(groups, a) == a.key = LevelKey /\ a.value.kind # "Level"

\* The built-in fields as the JSON handler passes them
BuiltinAttrs ==
    {[key |-> TimeKey, value |-> TimeValue],
     [key |-> SourceKey, value |-> SourceValue],
     [key |-> MessageKey, value |-> StringValue("done")]}
    \cup {[key |-> LevelKey, value |-> LevelValue(n)] : n \in NamedLevels}

\* Attributes of the calling code: any key, any kind of value
CallerKeys == {LevelKey, TimeKey, MessageKey, SourceKey, "key", "severity"}
CallerValues ==
    {StringValue("x"), StringValue("value"), BoolValue(TRUE), LevelValue(InfoLevel),
     LevelValue(ErrorLevel), TimeValue, SourceValue}
CallerAttrs == {[key |-> k, value |-> v] : k \in CallerKeys, v \in CallerValues}

GroupLists == SeqsUpTo(GroupNames, MaxGroups)

ReplacerInputs ==
    {[groups |-> <<>>, a |-> a, builtin |-> TRUE] : a \in BuiltinAttrs}
    \cup {[groups |-> g, a |-> a, builtin |-> FALSE] : g \in GroupLists, a \in CallerAttrs}

ReplaceAttrCall ==
    /\ replOut = <<>>
    /\ LET in == replIn[1]
       IN replOut' = IF replacer_panics(in.groups, in.a)
                     THEN <<[panic |-> TRUE, attr |-> <<>>]>>
                     ELSE <<[panic |-> FALSE, attr |-> <<replacer(in.groups, in.a)>>]>>
    /\ UNCHANGED <<heapVars, callVars, procVars, trimVars, maskVars, httpVars, retVars,
                   replIn, dumpIn, dumpOut>>

InitReplacer ==
    /\ Constructed(TestConfig)
    /\ NoTrim /\ NoMask /\ NoTransport /\ NoReturn
    /\ replIn \in {<<in>> : in \in ReplacerInputs}
    /\ replOut = <<>>
    /\ dumpIn = <<>>
    /\ dumpOut = <<>>

SpecReplacer == InitReplacer /\ [][ReplaceAttrCall]_vars

\* C27: replacer returns every attribute supplied by the calling code, keys
\* level, time, msg and source included, with its key and value unchanged and
\* without a fault; only the built-in fields of the record are remapped.
C27_CallerAttrsUntouched ==
    (replOut # <<>> /\ ~replIn[1].builtin) =>
        replOut[1] = [panic |-> FALSE, attr |-> <<replIn[1].a>>]

\* The calls on which C27 fails: a string under the key level, and a message
\* of the calling code's own
C27_LevelStringPanics ==
    /\ replIn = <<[groups |-> <<>>, a |-> String(LevelKey, "x"), builtin |-> FALSE]>>
    /\ replOut = <<[panic |-> TRUE, attr |-> <<>>]>>

C27_GroupedMsgRenamed ==
    /\ replIn = <<[groups |-> <<"req">>, a |-> String(MessageKey, "x"), builtin |-> FALSE]>>
    /\ replOut = <<[panic |-> FALSE, attr |-> <<String("message", "x")>>]>>

-----------------------------------------------------------------------------
(* DumpRequest and DumpResponse on their own.  A request or response is a   *)
(* sequence of length at most one, empty for nil.                           *)

\* DumpRequest, lines 101-107: with a nil request the error field is appended
\* and the function goes on
DumpRequest_nil(loggerFields, req) ==
    IF req = <<>>
    THEN Append(loggerFields,
                String("request_dump_error", "Error dumping request: nil request"))
    ELSE loggerFields

\* httputil.DumpRequestOut(req, true) begins by reading req.Body: a nil
\* pointer dereference when req is nil
DumpRequestOut_panics(req) == req = <<>>

Requests == {<<>>, <<"GET /">>}
Responses == {<<>>} \cup {<<[StatusCode |-> n]>> : n \in StatusCodes}

DumpRequestCall ==
    /\ dumpOut = <<>>
    /\ \E req \in Requests, dumped \in BOOLEAN :
          LET loggerFields == DumpRequest_nil(dumpIn, req)
          IN dumpOut' =
                IF DumpRequestOut_panics(req)
                THEN <<[fn |-> "DumpRequest", arg |-> req, panic |-> TRUE, fields |-> <<>>]>>
                ELSE <<[fn |-> "DumpRequest", arg |-> req, panic |-> FALSE,
                        fields |-> DumpRequest(loggerFields, dumped)]>>
    /\ UNCHANGED <<heapVars, callVars, procVars, trimVars, maskVars, httpVars, retVars,
                   replIn, replOut, dumpIn>>

DumpResponseCall ==
    /\ dumpOut = <<>>
    /\ \E resp \in Responses, dumped \in BOOLEAN :
          dumpOut' = <<[fn |-> "DumpResponse", arg |-> resp, panic |-> FALSE,
                        fields |-> DumpResponse(dumpIn, resp, dumped)]>>
    /\ UNCHANGED <<heapVars, callVars, procVars, trimVars, maskVars, httpVars, retVars,
                   replIn, replOut, dumpIn>>

InitDump ==
    /\ Constructed(TestConfig)
    /\ NoTrim /\ NoMask /\ NoTransport /\ NoReturn
    /\ replIn = <<>>
    /\ replOut = <<>>
    /\ dumpIn \in SeqsUpTo(Attrs, MaxFields)
    /\ dumpOut = <<>>

NextDump ==
    \/ DumpRequestCall
    \/ DumpResponseCall

SpecDump == InitDump /\ [][NextDump]_vars

\* What C26 says of a call with nil: no fault, and the given fields with one
\* error field behind them
NilDumped(key) ==
    /\ ~dumpOut[1].panic
    /\ Len(dumpOut[1].fields) = Len(dumpIn) + 1
    /\ SubSeq(dumpOut[1].fields, 1, Len(dumpIn)) = dumpIn
    /\ dumpOut[1].fields[Len(dumpIn) + 1].key = key
    /\ dumpOut[1].fields[Len(dumpIn) + 1].value.kind = "String"

\* C26: DumpRequest with a nil request returns the given fields with one
\* field request_dump_error appended, without a fault; DumpResponse with a
\* nil response does the same with response_dump_error.
C26_NilDumpAppendsError ==
    (dumpOut # <<>> /\ dumpOut[1].arg = <<>>) =>
        NilDumped(IF dumpOut[1].fn = "DumpRequest"
                  THEN "request_dump_error" ELSE "response_dump_error")

\* The half of C26 that holds: DumpResponse(loggerFields, nil)
C26_NilResponse ==
    (dumpOut # <<>> /\ dumpOut[1].fn = "DumpResponse" /\ dumpOut[1].arg = <<>>) =>
        NilDumped("response_dump_error")

\* The call on which C26 fails
C26_NilRequestPanics ==
    /\ dumpIn = <<String("key", "value")>>
    /\ dumpOut = <<[fn |-> "DumpRequest", arg |-> <<>>, panic |-> TRUE, fields |-> <<>>]>>

-----------------------------------------------------------------------------
(* spanContextLogHandler.Handle called on its own, with a base sink whose   *)
(* Handle can fail                                                          *)

\* What the base sink's Handle returns: nil ("") or an error
SinkResults == {"", "write failed"}

\* The levels on either side of the stack trace's threshold
HandleLevels == {InfoLevel, WarnLevel, ErrorLevel}

Handle_return_nil(baseResult) == ""

\* Handle, line 309: return t.Handler.Handle(ctx, record)
Handle_return(baseResult) == baseResult

HandleCall ==
    /\ Idle
    /\ \E l \in 1..Len(loggers), c \in 1..Len(ctxs), level \in HandleLevels,
          args \in AttrSeqs, err \in SinkResults :
          LET record == [Level |-> level, Message |-> "done", attrs |-> args]
              r == Handle(loggers[l], c, record, RuntimeStack("Handler.Handle"))
          IN /\ call' = [op |-> "Handler.Handle", l |-> l, ctx |-> c, level |-> level,
                         msg |-> "done", args |-> args]
             /\ nHandle' = 1
             /\ nBase' = 1
             /\ ambient' = LoggerFieldsFromContext(c)
             /\ handed' = <<r>>
             /\ out' = IF err = "" THEN <<JSONHandle(loggers[l].Handler, r)>> ELSE <<>>
             /\ sinkRet' = <<err>>
             /\ handleRet' = <<Handle_return(err)>>
    /\ UNCHANGED <<heapVars, procVars, trimVars, maskVars, httpVars, unitVars>>

NextHandle ==
    \/ ContextWithSpanContext
    \/ NewAttrs
    \/ ContextWithLoggerFields
    \/ HandleCall

SpecHandle == InitFields /\ [][NextHandle]_vars

Keys(as) == [i \in 1..Len(as) |-> as[i].key]

\* The keys of a record that went through all of Handle's steps, in order
DecoratedKeys ==
    Keys(call.args) \o Keys(ambient)
    \o (IF call.level >= WarnLevel THEN <<StacktraceKey>> ELSE <<>>)
    \o (IF ValidSpan(CallSpan) THEN <<TraceKey, SpanIdKey, TraceSampledKey>> ELSE <<>>)

\* C24: a call of Handle calls the base sink's Handle once, with the record
\* that has been through the ambient attributes, the stack trace and the
\* trace fields in this order, and returns what the base sink returned: an
\* error of the base sink is the error of Handle.
C24_ReturnsSinkResult ==
    handleRet # <<>> =>
        /\ nBase = 1
        /\ Len(handed) = 1
        /\ Keys(handed[1].attrs) = DecoratedKeys
        /\ handleRet = sinkRet
        /\ sinkRet # <<"">> => handleRet # <<"">>

C24_Witness ==
    /\ handleRet = <<"write failed">>
    /\ sinkRet = <<"write failed">>
    /\ nBase = 1
    /\ call.level = WarnLevel
    /\ ValidSpan(CallSpan)
    /\ Keys(handed[1].attrs) =
          <<"key", StacktraceKey, TraceKey, SpanIdKey, TraceSampledKey>>

-----------------------------------------------------------------------------
(* Derived loggers with span contexts and logger fields *)

\* The state once NewLogger has returned and the calling code has made a
\* context with a span context and, from it, one with logger fields
InitDerived ==
    /\ loggers = <<NewLogger(TestConfig)>>
    /\ lineage = <<[parent |-> 0, attrs |-> <<>>, group |-> ""]>>
    /\ lwcs = <<>>
    /\ arrays = << <<String("user", "value"), String("key", "value")>> >>
    /\ held = {1}
    /\ ctxs = <<NewContext("Background", 0, 0, NoSpanContext),
                NewContext("span", Background, 0, SpanContext(TestTraceID, TestSpanID, FALSE)),
                NewContext("fields", 2, 1, NoSpanContext)>>
    /\ attached = << <<>>, <<>>, <<String("user", "value"), String("key", "value")>> >>
    /\ call = NoCall
    /\ nHandle = 0
    /\ nBase = 0
    /\ ambient = <<>>
    /\ handed = <<>>
    /\ out = <<>>
    /\ pc = "idle"
    /\ status = "running"
    /\ fault = ""
    /\ exitCode = 0
    /\ NoTrim /\ NoMask /\ NoTransport /\ NoReturn /\ NoUnit

NextDerived ==
    \/ With
    \/ LoggerWithGroup
    \/ InfoContext
    \/ WarnContext

SpecDerived == InitDerived /\ [][NextDerived]_vars

\* The decorator a derivation step makes of its receiver's
DerivedFrom(t, step) ==
    [ProjectID |-> t.ProjectID,
     Handler |-> IF step.group # ""
                 THEN [t.Handler EXCEPT !.groups = Append(@, step.group)]
                 ELSE [t.Handler EXCEPT !.attrs =
                          @ \o [i \in 1..Len(step.attrs) |->
                                  [path |-> t.Handler.groups, key |-> step.attrs[i].key,
                                   value |-> step.attrs[i].value]]]]

\* C23: every derived logger's decorator keeps its receiver's project
\* identifier and wraps the base sink derived from its receiver's, the
\* receiver staying as it was; and a record handled through a derived logger
\* is handed to the base sink with the ambient attributes, the stack trace and
\* the trace fields once each, the same record as through the logger NewLogger
\* built.
C23_DerivationTransparent ==
    /\ loggers[1] = NewLogger(TestConfig)
    /\ \A l \in 2..Len(loggers) :
          loggers[l] = DerivedFrom(loggers[lineage[l].parent], lineage[l])
    /\ handed # <<>> =>
          /\ nHandle = 1
          /\ Keys(handed[1].attrs) = DecoratedKeys
          /\ handed[1] = Handle(NewLogger(TestConfig), call.ctx,
                                [Level |-> call.level, Message |-> call.msg,
                                 attrs |-> call.args],
                                RuntimeStack(call.op))
          /\ ValidSpan(CallSpan) =>
                \E i \in WithKey(handed[1].attrs, TraceKey) :
                   handed[1].attrs[i].value =
                      StringValue("projects/test-project/traces/"
                                  \o TraceIDText(CallSpan.TraceID))

C23_Witness ==
    /\ Len(loggers) = 3
    /\ lineage[2].parent = 1 /\ lineage[2].attrs = <<String("key", "other")>>
    /\ lineage[3].parent = 2 /\ lineage[3].group = "req"
    /\ call.l = 3
    /\ call.level = WarnLevel
    /\ CallSpan = SpanContext(TestTraceID, TestSpanID, FALSE)
    /\ handed # <<>>
    /\ Keys(handed[1].attrs) = Keys(call.args) \o <<StacktraceKey, TraceKey, SpanIdKey,
                                                    TraceSampledKey>>

\* C23 with logger fields on the context
C23_WitnessAmbient ==
    /\ call.op # "none"
    /\ lineage[call.l].group = "req"
    /\ ValidSpan(CallSpan)
    /\ ambient # <<>>
    /\ handed # <<>>
    /\ Keys(handed[1].attrs) =
          Keys(call.args) \o <<"user", "key", TraceKey, SpanIdKey, TraceSampledKey>>

\* C28: a record logged with a valid span context through a logger derived
\* with WithGroup is written with logging.googleapis.com/trace,
\* logging.googleapis.com/spanId, logging.googleapis.com/trace_sampled and,
\* from Warn on, stacktrace as top-level keys, not inside the group.
C28_TraceKeysTopLevel ==
    (Written /\ LineageGroups(call.l) # <<>>) =>
        /\ ValidSpan(CallSpan) =>
              \A k \in {TraceKey, SpanIdKey, TraceSampledKey} : TopLevel(out[1], k) # {}
        /\ call.level >= WarnLevel => TopLevel(out[1], StacktraceKey) # {}

\* The record on which C28 fails: the trace keys are members of the group
C28_TraceKeysInGroup ==
    /\ Written
    /\ LineageGroups(call.l) = <<"req">>
    /\ ValidSpan(CallSpan)
    /\ TopLevel(out[1], TraceKey) = {}
    /\ \E i \in 1..Len(out[1]) : out[1][i].path = <<"req">> /\ out[1][i].key = TraceKey

-----------------------------------------------------------------------------
(* The logger RoundTrip writes through, with several loggers to tell apart *)

\* The state once NewLogger has returned and the calling code has derived a
\* second logger from it with WithGroup("req")
InitRouted ==
    /\ loggers = <<NewLogger(TestConfig), WithGroup(NewLogger(TestConfig), "req")>>
    /\ lineage = <<[parent |-> 0, attrs |-> <<>>, group |-> ""], Derived(1, <<>>, "req")>>
    /\ lwcs = <<>>
    /\ ctxs = <<NewContext("Background", 0, 0, NoSpanContext)>>
    /\ attached = << <<>> >>
    /\ arrays = <<>>
    /\ held = {}
    /\ call = NoCall
    /\ nHandle = 0
    /\ nBase = 0
    /\ ambient = <<>>
    /\ handed = <<>>
    /\ out = <<>>
    /\ pc = "idle"
    /\ status = "running"
    /\ fault = ""
    /\ exitCode = 0
    /\ NoTrim /\ NoMask /\ NoTransport /\ NoReturn /\ NoUnit

NextRouted ==
    \/ ContextWithLogger
    \/ NewLoggingTransport
    \/ RoundTrip

SpecRouted == InitRouted /\ [][NextRouted]_vars

\* The contexts from c up to the root
RECURSIVE Chain(_)
Chain(c) == IF c = 0 THEN <<>> ELSE <<c>> \o Chain(ctxs[c].parent)

\* What the nearest ContextWithLogger at or above c bound, if there is one
Bound(c) ==
    LET chain == Chain(c)
        at == {i \in 1..Len(chain) : ctxs[chain[i]].kind = "logger"}
    IN IF at = {} THEN <<>>
       ELSE <<ctxs[chain[CHOOSE i \in at : \A j \in at : i <= j]].logger>>

\* The logger C21 says a round trip with context c writes through
Routed(c) == IF Bound(c) \in {<<>>, <<0>>} THEN transport[1].l ELSE Bound(c)[1]

C21_WitnessFallback ==
    /\ Tripped
    /\ transport[1].l = 2
    /\ Bound(trip[1].req.ctx) = <<>>
    /\ call.l = 2
    /\ Written

====
